---- MODULE Spec2Model ----
(***************************************************************************)
(* Model of the CONEX-CC stage driver (omq_visa_drivers/motors/conexcc.py). *)
(*                                                                         *)
(* The driver is a sequential program: one caller invokes one operation at *)
(* a time, and an operation is a sequence of transport round trips.  One   *)
(* step of the model is the code of an operation up to and including its   *)
(* next transport round trip (or its raise/return), so that the controller *)
(* can answer differently from one round trip to the next.  The transport  *)
(* is opaque: every round trip answers with any result code, error string  *)
(* and value.                                                              *)
(*                                                                         *)
(* Units: positions are micrometres at the public boundary and whole       *)
(* millimetres on the transport (requested positions are multiples of      *)
(* 1000 um); velocities are in tenths of mm/s (0.4 mm/s is 4); time is in  *)
(* seconds.                                                                *)
(***************************************************************************)
EXTENDS Integers, Sequences, FiniteSets, TLC

VARIABLES
    stack,       \* the Python call stack of the running operation, innermost last
    call,        \* the operation the caller invoked last, with its arguments
    log,         \* the set/motion commands written to the transport during that call
    lastReply,   \* the answer of the last transport round trip of that call
    readyChecked,\* a readiness check made before a move of that call saw a ready state
    readyPolled, \* a polling loop of that call has seen a ready state
    outcome,     \* how that call ended (or "running" / "idle")
    driver,      \* self.driver: the transport handle of the axis
    min_limit,   \* self.min_limit: the cached negative travel limit, mm
    max_limit,   \* self.max_limit: the cached positive travel limit, mm
    constructed, \* the constructor has returned: the caller holds the axis
    threads,     \* two axes, each driven by a thread of its own
    position,    \* where the stage of the axis really is, mm
    va_class,    \* the analyzer driver in use: "VSA" or "RSVectorAnalyser"
    visa_instr_timeout, \* visa_instr.timeout of the analyzer handle, ms
    average_repeat,     \* the analyzer's SENSe:AVERage:REPeat setting
    va_call,     \* the analyzer operation the caller invoked last
    va_arg,      \* its argument: n_retry, or the sleep_function
    va_pc,       \* where that operation stands
    previous_timeout,   \* the local of measurement_done
    avg_repeat_status,  \* the local of take_sample_curve
    va_n_retry,  \* n_retry, the local of the *_vi_error_robust loops
    attempts,    \* the attempts that call has begun
    timeout_before,     \* visa_instr.timeout when that call began
    repeat_before,      \* the SENSe:AVERage:REPeat setting when that call began
    va_reply,    \* the last answer of the analyzer, or of sleep_function
    va_status,   \* the last status the analyzer reported, None before
    va_outcome,  \* how that call ended
    device,      \* AOM_DDS._device
    assigned,    \* the values assigned to AOM_DDS.device so far
    aom_outcome  \* how the last assignment ended

vars == <<stack, call, log, lastReply, readyChecked, readyPolled, outcome,
          driver, min_limit, max_limit, constructed, threads,
          position, va_class, visa_instr_timeout, average_repeat, va_call,
          va_arg, va_pc, previous_timeout, avg_repeat_status, va_n_retry,
          attempts, timeout_before, repeat_before, va_reply, va_status,
          va_outcome, device, assigned, aom_outcome>>

\* the axis of one caller, and all that its operations record
single == <<stack, call, log, lastReply, readyChecked, readyPolled, outcome,
            driver, min_limit, max_limit, constructed>>

\* the axis object
axis == <<driver, min_limit, max_limit, constructed>>

\* the analyzer object, its instrument, and all that its operations record
analyzer == <<va_class, visa_instr_timeout, average_repeat, va_call, va_arg,
              va_pc, previous_timeout, avg_repeat_status, va_n_retry, attempts,
              timeout_before, repeat_before, va_reply, va_status, va_outcome>>

\* the AOM_DDS object and all that its assignments record
aom == <<device, assigned, aom_outcome>>

\* what the operations of one axis leave alone
others == <<threads, position, analyzer, aom>>

(***************************** program constants ***************************)

MAX_VELOCITY == 4

MAX_RUN == 37000

DefaultTimeout == 30

DefaultRetry == 3

\* a limit that was never read
None == -1

READY_STATES_tracking == {"32", "33", "34", "36", "37", "38", "46"}

READY_STATES == {"32", "33", "34", "36", "37", "38"}

POSSIBLE_STATES ==
    ("0A" :> "NOT REFERENCED from RESET.") @@
    ("0B" :> "NOT REFERENCED from HOMING.") @@
    ("0C" :> "NOT REFERENCED from CONFIGURATION.") @@
    ("0D" :> "NOT REFERENCED from DISABLE.") @@
    ("0E" :> "NOT REFERENCED from READY.") @@
    ("0F" :> "NOT REFERENCED from MOVING.") @@
    ("10" :> "NOT REFERENCED - NO PARAMETERS IN MEMORY.") @@
    ("14" :> "CONFIGURATION.") @@
    ("1E" :> "HOMING.") @@
    ("28" :> "MOVING.") @@
    ("32" :> "READY from HOMING.") @@
    ("33" :> "READY from MOVING.") @@
    ("34" :> "READY from DISABLE.") @@
    ("36" :> "READY T from READY.") @@
    ("37" :> "READY T from TRACKING.") @@
    ("38" :> "READY T from DISABLE T.") @@
    ("3C" :> "DISABLE from READY.") @@
    ("3D" :> "DISABLE from MOVING.") @@
    ("3E" :> "DISABLE from TRACKING.") @@
    ("3F" :> "DISABLE from READY T.") @@
    ("46" :> "TRACKING from READY T.") @@
    ("47" :> "TRACKING from TRACKING.")

(********************************* bounds **********************************)

\* n_retry arguments range over 0..MaxRetry
MaxRetry == 1

\* the time one polling iteration (sleep + state query) takes when the
\* controller answers at once; a slow one takes twice as long
MaxStall == 20

\* requested velocities range over 0..MaxSpeed (tenths of mm/s)
MaxSpeed == 9

\* positions the controller reports range over multiples of its travel, in mm
MaxReportedMm == 37

\* n_retry of the *_vi_error_robust functions ranges over 0..MaxVaRetry
MaxVaRetry == 2

\* the assignments to AOM_DDS.device that are followed
MaxAssignments == 2

(***************************** input domains *******************************)

\* n_retry of the *_vi_error_robust functions
VaRetries == 0..MaxVaRetry

\* visa_instr.timeout as the caller has set it, ms
HandleTimeouts == {100, 2000}


Retries == 0..MaxRetry

\* timeouts the caller passes: one that a single polling iteration reaches
\* exactly (the edge of the > comparison), and the default
Timeouts == {MaxStall, DefaultTimeout}

Durations == {MaxStall, 2 * MaxStall}

Speeds == 0..MaxSpeed

\* absolute targets, um: below the travel, inside the run, at its end, and
\* beyond it
Targets == {-1000, 1000, MAX_RUN, MAX_RUN + 1000, 41000}

\* relative distances, um
Distances == {-1000, 1000, 40000}

\* positions the controller reports, mm
ReportedMm == {0, 1, MaxReportedMm}

\* travel limits the controller reports, mm
NegativeLimits == {0}

PositiveLimits == {25, MaxReportedMm}

\* the controller states the state query reports
StateCodes == DOMAIN POSSIBLE_STATES

ResultCodes == {0, -1}

ErrStrings == {"", "ERR"}

\* the controller's error codes: none, and a following error
ErrorCodes == {"0000", "0040"}

(******************************** transport ********************************)

Reply(cmd, res, err, state, val) ==
    [cmd |-> cmd, res |-> res, err |-> err, state |-> state, val |-> val,
     error |-> ""]

NoReply == Reply("", 0, "", "", 0)

\* answers of a set/motion command: (result code, error string)
CommandReplies(cmd) ==
    {Reply(cmd, r, e, "", 0) : r \in ResultCodes, e \in ErrStrings}

\* answers of a numeric query: (result code, value, error string)
QueryReplies(cmd, values) ==
    {Reply(cmd, 0, "", "", v) : v \in values}
    \cup {Reply(cmd, -1, e, "", 0) : e \in ErrStrings}
    \cup {Reply(cmd, 0, "ERR", "", 0)}

\* answers of the state query TS: (result code, error code, state, error string)
StateReplies ==
    {Reply("TS", r, "", s, 0) : r \in ResultCodes, s \in StateCodes}
    \cup {Reply("TS", r, "ERR", "", 0) : r \in ResultCodes}

\* answers of the state query TS to a caller that reads the controller's
\* error code as well; the readiness checks and the polling loops read the
\* state alone, and their answers leave the error code out
StatusReplies ==
    {[Reply("TS", r, "", s, 0) EXCEPT !.error = e] :
        r \in ResultCodes, s \in StateCodes, e \in ErrorCodes}
    \cup {Reply("TS", r, "ERR", "", 0) : r \in ResultCodes}

Command(cmd, arg) == [cmd |-> cmd, arg |-> arg]

(***************************** frames and outcomes **************************)

Frame(proc, pc, arg, timeout, n_retry) ==
    [arg |-> arg, proc |-> proc, pc |-> pc, timeout |-> timeout,
     n_retry |-> n_retry, elapsed |-> 0]

NoCall == Frame("", "", 0, 0, 0)

Top == stack[Len(stack)]

WithTop(f) == [stack EXCEPT ![Len(stack)] = f]

At(proc, pc) == stack # <<>> /\ Top.proc = proc /\ Top.pc = pc

Outcome(kind, site, pos, max_pos, timeout, waited, state) ==
    [state |-> state, timeout |-> timeout, kind |-> kind, site |-> site,
     pos |-> pos, max_pos |-> max_pos, waited |-> waited, value |-> <<>>]

Idle == Outcome("idle", "", 0, 0, 0, 0, "")

Running == Outcome("running", "", 0, 0, 0, 0, "")

Returned == Outcome("returned", "", 0, 0, 0, 0, "")

\* the call returned `value` (a tuple of strings) to its caller
ReturnedValue(value) == [Returned EXCEPT !.value = value]

\* a StateError with its fields the other way round
StateError_swapped(state, error) == <<error, state>>

\* StateError(NamedTuple): state, error
StateError(state, error) == <<state, error>>

CCMotorCommunicationError(site) ==
    Outcome("CCMotorCommunicationError", site, 0, 0, 0, 0, "")

CCMotorStateError(site, state) ==
    Outcome("CCMotorStateError", site, 0, 0, 0, 0, state)

CCMotorTimeoutError(site, timeout, waited) ==
    Outcome("CCMotorTimeoutError", site, 0, 0, timeout, waited, "")

CCMotorRangeExceededError(site, pos, max_pos) ==
    Outcome("CCMotorRangeExceededError", site, pos, max_pos, 0, 0, "")

ValueError(site) == Outcome("ValueError", site, 0, 0, 0, 0, "")

\* the exception classes derived from CCMotorError
CCMotorErrors ==
    {"CCMotorError", "CCMotorStateError", "CCMotorTimeoutError",
     "CCMotorRangeExceededError", "CCMotorOtherError",
     "CCMotorCommunicationError"}

(**************************** pure helper functions *************************)

\* 1e-3 * um, for a whole number of millimetres
UmToMm(um) == um \div 1000

\* mm * 1e3
MmToUm(mm) == mm * 1000

\* a check of the result code alone
Rejected_result_only(r) == r.res # 0

\* res != 0 or err_str != ''
Rejected(r) == r.res # 0 \/ r.err # ""

\* len(err_str) in get_state: the result code of TS is not looked at
StateQueryFailed(r) == r.err # ""

\* a state table slip: MOVING counted among the ready states
is_ready_moving(state) == state \in READY_STATES \cup {"28"}

is_ready(state) == state \in READY_STATES

\* a range check against a ceiling one millimetre too high
AbsoluteOutOfRange_loose(new_pos) == new_pos > MAX_RUN + 1000

AbsoluteOutOfRange(new_pos) == new_pos > MAX_RUN

\* a range check on the distance alone, the current position forgotten
RelativeOutOfRange_delta(cur_pos, distance_um) == distance_um > MAX_RUN

RelativeOutOfRange(cur_pos, distance_um) == cur_pos + distance_um > MAX_RUN

\* no clamping
ClampVelocity_none(velocity) == velocity

ClampVelocity(velocity) ==
    IF velocity > MAX_VELOCITY THEN MAX_VELOCITY ELSE velocity

\* a window twice as long
TimedOut_late(elapsed, timeout) == elapsed > 2 * timeout

\* >= instead of >
TimedOut_early(elapsed, timeout) == elapsed >= timeout

\* time.time() - time_start > timeout
TimedOut(elapsed, timeout) == elapsed > timeout

\* one homing attempt too many
HomingRetryLeft_extra(n_retry) == n_retry >= 0

\* n_retry > 0 in init_position_sync
HomingRetryLeft(n_retry) == n_retry > 0

\* the last retry is never made
MoveRetryLeft_short(n_retry) == n_retry > 1

\* n_retry > 0 in move_absolute_sync
MoveRetryLeft(n_retry) == n_retry > 0

(****************************** control transfer ****************************)

\* a frame whose pc is "ret" made its recursive call in tail position:
\* when the callee returns, it returns too; a frame past its polling loop
\* no longer reads time_start, and its elapsed time is kept as 0
RECURSIVE Unwind(_)
Unwind(s) ==
    IF s = <<>> THEN s
    ELSE IF s[Len(s)].pc = "ret" THEN Unwind(SubSeq(s, 1, Len(s) - 1))
    ELSE s

\* the innermost frame returns normally
Return ==
    LET s == Unwind(SubSeq(stack, 1, Len(stack) - 1)) IN
    /\ stack' = s
    /\ outcome' = IF s = <<>> THEN Returned ELSE outcome

\* an exception leaves the innermost frame; nothing in the driver catches it
Raise(e) ==
    /\ stack' = <<>>
    /\ outcome' = e

\* the caller invokes an operation: the frames it starts with
Begin(frames) ==
    /\ stack = <<>>
    /\ constructed
    /\ driver = "open"
    /\ UNCHANGED <<axis, others>>
    /\ stack' = frames
    /\ call' = frames[1]
    /\ log' = <<>>
    /\ lastReply' = NoReply
    /\ readyChecked' = FALSE
    /\ readyPolled' = FALSE
    /\ outcome' = Running

\* no analyzer and no AOM_DDS in use, and a stage that stays where it is
NoAnalyzer ==
    /\ va_class = "none"
    /\ visa_instr_timeout = 0
    /\ average_repeat = FALSE
    /\ va_call = "none"
    /\ va_arg = 0
    /\ va_pc = "idle"
    /\ previous_timeout = 0
    /\ avg_repeat_status = FALSE
    /\ va_n_retry = 0
    /\ attempts = 0
    /\ timeout_before = 0
    /\ repeat_before = FALSE
    /\ va_reply = "none"
    /\ va_status = None
    /\ va_outcome = "idle"

NoAom ==
    /\ device = <<"NoneType", 0>>
    /\ assigned = <<>>
    /\ aom_outcome = "idle"

NoAxis ==
    /\ stack = <<>>
    /\ call = NoCall
    /\ log = <<>>
    /\ lastReply = NoReply
    /\ readyChecked = FALSE
    /\ readyPolled = FALSE
    /\ outcome = Idle
    /\ driver = "none"
    /\ min_limit = None
    /\ max_limit = None
    /\ constructed = FALSE
    /\ threads = <<>>
    /\ position = 0

Init ==
    /\ stack = <<>>
    /\ call = NoCall
    /\ log = <<>>
    /\ lastReply = NoReply
    /\ readyChecked = FALSE
    /\ readyPolled = FALSE
    /\ outcome = Idle
    /\ driver = "none"
    /\ min_limit = None
    /\ max_limit = None
    /\ constructed = FALSE
    /\ threads = <<>>
    /\ position = 0
    /\ NoAnalyzer
    /\ NoAom

(************************* steps shared by operations ***********************)

\* self.is_ready before a move: one state query; the move goes on only from
\* a ready state
Preflight ==
    \E r \in StateReplies :
        /\ lastReply' = r
        /\ UNCHANGED <<call, log, readyPolled>>
        /\ IF StateQueryFailed(r)
           THEN Raise(CCMotorCommunicationError("get_state"))
                /\ UNCHANGED readyChecked
           ELSE /\ stack' = WithTop([Top EXCEPT !.pc =
                                IF is_ready(r.state) THEN "send" ELSE "not_ready"])
                /\ readyChecked' = (readyChecked \/ r.state \in READY_STATES)
                /\ UNCHANGED outcome

\* the message of CCMotorStateError reads self.state: a second state query
NotReady(proc) ==
    \E r \in StateReplies :
        /\ lastReply' = r
        /\ UNCHANGED <<call, log, readyChecked, readyPolled>>
        /\ IF StateQueryFailed(r)
           THEN Raise(CCMotorCommunicationError("get_state"))
           ELSE Raise(CCMotorStateError(proc, r.state))

\* driver.PR_Set / driver.PA_Set with the distance in mm
SendMove(proc, cmd) ==
    \E r \in CommandReplies(cmd) :
        /\ log' = Append(log, Command(cmd, UmToMm(Top.arg)))
        /\ lastReply' = r
        /\ UNCHANGED <<call, readyChecked, readyPolled>>
        /\ IF Rejected(r) THEN Raise(ValueError(proc)) ELSE Return

\* one iteration of a polling loop whose time is not up: sleep, then query
\* the state; the loop ends when the state is ready
Poll ==
    \E d \in Durations, r \in StateReplies :
        /\ lastReply' = r
        /\ UNCHANGED <<call, log, readyChecked>>
        /\ IF StateQueryFailed(r)
           THEN Raise(CCMotorCommunicationError("get_state"))
                /\ UNCHANGED readyPolled
           ELSE IF is_ready(r.state)
           THEN Return /\ readyPolled' = TRUE
           ELSE /\ stack' = WithTop([Top EXCEPT !.elapsed = @ + d])
                /\ UNCHANGED <<outcome, readyPolled>>

\* driver.MM_Set(DEV, state, ""): the command, its answer, and the stack
\* the caller goes on with when the command is accepted
set_state(state, sent, next) ==
    \E r \in CommandReplies("MM_Set") :
        /\ log' = Append(sent, Command("MM_Set", state))
        /\ lastReply' = r
        /\ IF Rejected(r)
           THEN Raise(CCMotorCommunicationError("set_state"))
           ELSE /\ stack' = next
                /\ outcome' = IF next = <<>> THEN Returned ELSE outcome

\* a move_absolute_sync that returns as soon as move_absolute_async does
EnterMoveAbsoluteSync_nowait(new_pos, timeout, n_retry) ==
    <<Frame("move_absolute_sync", "ret", new_pos, timeout, n_retry),
      Frame("move_absolute_async", "start", new_pos, 0, 0)>>

\* the frames move_absolute_sync starts with: it calls move_absolute_async
\* and then polls
EnterMoveAbsoluteSync(new_pos, timeout, n_retry) ==
    <<Frame("move_absolute_sync", "loop", new_pos, timeout, n_retry),
      Frame("move_absolute_async", "start", new_pos, 0, 0)>>

EnterMoveRelativeSync(distance_um, timeout) ==
    <<Frame("move_relative_sync", "loop", distance_um, timeout, 0),
      Frame("move_relative_async", "start", distance_um, 0, 0)>>

EnterInitPositionSync(timeout, n_retry) ==
    <<Frame("init_position_sync", "start", 0, timeout, n_retry)>>

\* a recovery that goes straight to the retry, without homing
Recovery_no_homing(s) ==
    [s EXCEPT ![Len(s)].pc = "retry", ![Len(s)].elapsed = 0]

\* a recovery whose homing takes the timeout and the retries of the move
Recovery_callers_arguments(s) ==
    [s EXCEPT ![Len(s)].pc = "retry", ![Len(s)].elapsed = 0]
        \o EnterInitPositionSync(s[Len(s)].timeout, s[Len(s)].n_retry)

\* the stack of move_absolute_sync once set_enable() has returned: it calls
\* init_position_sync() with the default arguments and goes on to the retry
Recovery(s) ==
    [s EXCEPT ![Len(s)].pc = "retry", ![Len(s)].elapsed = 0]
        \o EnterInitPositionSync(DefaultTimeout, DefaultRetry)

(***************************** move_absolute_async **************************)

call_move_absolute_async ==
    \E p \in Targets :
        Begin(<<Frame("move_absolute_async", "start", p, 0, 0)>>)

\* the range check, then the readiness check
move_absolute_async_check ==
    /\ At("move_absolute_async", "start")
    /\ UNCHANGED <<axis, others>>
    /\ IF AbsoluteOutOfRange(Top.arg)
       THEN /\ Raise(CCMotorRangeExceededError("move_absolute_async",
                                               Top.arg, MAX_RUN))
            /\ UNCHANGED <<call, log, lastReply, readyChecked, readyPolled>>
       ELSE Preflight

move_absolute_async_not_ready ==
    /\ At("move_absolute_async", "not_ready")
    /\ UNCHANGED <<axis, others>>
    /\ NotReady("move_absolute_async")

move_absolute_async_send ==
    /\ At("move_absolute_async", "send")
    /\ UNCHANGED <<axis, others>>
    /\ SendMove("move_absolute_async", "PA_Set")

(***************************** move_relative_async **************************)

call_move_relative_async ==
    \E d \in Distances :
        Begin(<<Frame("move_relative_async", "start", d, 0, 0)>>)

\* cur_pos (one position query, mm to um), then the range check
move_relative_async_check ==
    /\ At("move_relative_async", "start")
    /\ UNCHANGED <<axis, others>>
    /\ \E r \in QueryReplies("TP", ReportedMm) :
        /\ lastReply' = r
        /\ UNCHANGED <<call, log, readyChecked, readyPolled>>
        /\ IF Rejected(r)
           THEN Raise(CCMotorCommunicationError("cur_pos_mm"))
           ELSE IF RelativeOutOfRange(MmToUm(r.val), Top.arg)
           THEN Raise(CCMotorRangeExceededError("move_relative_async",
                                                MmToUm(r.val) + Top.arg, MAX_RUN))
           ELSE /\ stack' = WithTop([Top EXCEPT !.pc = "ready"])
                /\ UNCHANGED outcome

move_relative_async_ready ==
    /\ At("move_relative_async", "ready")
    /\ UNCHANGED <<axis, others>>
    /\ Preflight

move_relative_async_not_ready ==
    /\ At("move_relative_async", "not_ready")
    /\ UNCHANGED <<axis, others>>
    /\ NotReady("move_relative_async")

move_relative_async_send ==
    /\ At("move_relative_async", "send")
    /\ UNCHANGED <<axis, others>>
    /\ SendMove("move_relative_async", "PR_Set")

(****************************** move_relative_sync **************************)

call_move_relative_sync ==
    \E d \in Distances, t \in Timeouts :
        Begin(EnterMoveRelativeSync(d, t))

move_relative_sync_poll ==
    /\ At("move_relative_sync", "loop")
    /\ UNCHANGED <<axis, others>>
    /\ ~TimedOut(Top.elapsed, Top.timeout)
    /\ Poll

\* a time-out that drops the cached limits
move_relative_sync_timeout_forgetting ==
    /\ At("move_relative_sync", "loop")
    /\ TimedOut(Top.elapsed, Top.timeout)
    /\ Raise(CCMotorTimeoutError("move_relative_sync", Top.timeout, Top.elapsed))
    /\ UNCHANGED <<call, log, lastReply, readyChecked, readyPolled>>
    /\ UNCHANGED <<driver, constructed, others>>
    /\ min_limit' = None
    /\ max_limit' = None

move_relative_sync_timeout ==
    /\ At("move_relative_sync", "loop")
    /\ UNCHANGED <<axis, others>>
    /\ TimedOut(Top.elapsed, Top.timeout)
    /\ Raise(CCMotorTimeoutError("move_relative_sync", Top.timeout, Top.elapsed))
    /\ UNCHANGED <<call, log, lastReply, readyChecked, readyPolled>>

(****************************** init_position_sync **************************)

call_init_position_sync ==
    \E t \in Timeouts, n \in Retries :
        Begin(EnterInitPositionSync(t, n))

\* init_position_async, then time_start = time.time()
init_position_sync_start ==
    /\ At("init_position_sync", "start")
    /\ UNCHANGED <<axis, others>>
    /\ \E r \in CommandReplies("OR") :
        /\ log' = Append(log, Command("OR", 0))
        /\ lastReply' = r
        /\ UNCHANGED <<call, readyChecked, readyPolled>>
        /\ IF Rejected(r)
           THEN Raise(CCMotorCommunicationError("init_position_async"))
           ELSE /\ stack' = WithTop([Top EXCEPT !.pc = "loop", !.elapsed = 0])
                /\ UNCHANGED outcome

init_position_sync_poll ==
    /\ At("init_position_sync", "loop")
    /\ UNCHANGED <<axis, others>>
    /\ ~TimedOut(Top.elapsed, Top.timeout)
    /\ Poll

init_position_sync_timeout ==
    /\ At("init_position_sync", "loop")
    /\ UNCHANGED <<axis, others>>
    /\ TimedOut(Top.elapsed, Top.timeout)
    /\ UNCHANGED <<call, log, lastReply, readyChecked, readyPolled>>
    /\ IF HomingRetryLeft(Top.n_retry)
       THEN /\ stack' = WithTop([Top EXCEPT !.pc = "ret", !.elapsed = 0])
                          \o EnterInitPositionSync(Top.timeout, Top.n_retry - 1)
            /\ UNCHANGED outcome
       ELSE Raise(CCMotorTimeoutError("init_position_sync",
                                      Top.timeout, Top.elapsed))

(****************************** move_absolute_sync **************************)

call_move_absolute_sync ==
    \E p \in Targets, t \in Timeouts, n \in Retries :
        Begin(EnterMoveAbsoluteSync(p, t, n))

move_absolute_sync_poll ==
    /\ At("move_absolute_sync", "loop")
    /\ UNCHANGED <<axis, others>>
    /\ ~TimedOut(Top.elapsed, Top.timeout)
    /\ Poll

\* time is up: with retries left, set_enable() and then init_position_sync()
\* with its default arguments; without, CCMotorTimeoutError
move_absolute_sync_timeout ==
    /\ At("move_absolute_sync", "loop")
    /\ UNCHANGED <<axis, others>>
    /\ TimedOut(Top.elapsed, Top.timeout)
    /\ UNCHANGED <<call, readyChecked, readyPolled>>
    /\ IF MoveRetryLeft(Top.n_retry)
       THEN set_state(1, log, Recovery(stack))
       ELSE /\ Raise(CCMotorTimeoutError("move_absolute_sync",
                                         Top.timeout, Top.elapsed))
            /\ UNCHANGED <<log, lastReply>>

\* the homing has returned: the same move again, with one retry less
move_absolute_sync_retry ==
    /\ At("move_absolute_sync", "retry")
    /\ UNCHANGED <<axis, others>>
    /\ stack' = WithTop([Top EXCEPT !.pc = "ret"])
                  \o EnterMoveAbsoluteSync(Top.arg, Top.timeout, Top.n_retry - 1)
    /\ UNCHANGED <<call, log, lastReply, readyChecked, readyPolled, outcome>>

(************************ init_position_and_come_back ***********************)

call_init_position_and_come_back ==
    Begin(<<Frame("init_position_and_come_back", "start", 0, 0, 0)>>)

\* the come-back goes to the home position, not to the recorded one
ComeBack_home(old_pos) ==
    EnterMoveAbsoluteSync(0, DefaultTimeout, DefaultRetry)

\* self.move_absolute_sync(old_pos): the default timeout and retries
ComeBack(old_pos) ==
    EnterMoveAbsoluteSync(old_pos, DefaultTimeout, DefaultRetry)

\* old_pos = self.cur_pos (one position query, mm to um), then
\* self.init_position_sync() with its default arguments
init_position_and_come_back_read ==
    /\ At("init_position_and_come_back", "start")
    /\ UNCHANGED <<axis, others>>
    /\ \E r \in QueryReplies("TP", ReportedMm) :
        /\ lastReply' = r
        /\ UNCHANGED <<call, log, readyChecked, readyPolled>>
        /\ IF Rejected(r)
           THEN Raise(CCMotorCommunicationError("cur_pos_mm"))
           ELSE /\ stack' = WithTop([Top EXCEPT !.pc = "move",
                                                !.arg = MmToUm(r.val)])
                            \o EnterInitPositionSync(DefaultTimeout, DefaultRetry)
                /\ UNCHANGED outcome

\* the homing has returned: the move back to the recorded position
init_position_and_come_back_move ==
    /\ At("init_position_and_come_back", "move")
    /\ UNCHANGED <<axis, others>>
    /\ stack' = WithTop([Top EXCEPT !.pc = "ret"]) \o ComeBack(Top.arg)
    /\ UNCHANGED <<call, log, lastReply, readyChecked, readyPolled, outcome>>

(************************** single round-trip operations ********************)

\* an operation that runs from call to end in one step
Single(op, arg) ==
    /\ stack = <<>>
    /\ constructed
    /\ driver = "open"
    /\ UNCHANGED <<driver, constructed, others>>
    /\ call' = Frame(op, "", arg, 0, 0)
    /\ readyChecked' = FALSE
    /\ readyPolled' = FALSE

\* a set command: written, and rejected or accepted
SetCommand(op, cmd, arg) ==
    \E r \in CommandReplies(cmd) :
        /\ log' = <<Command(cmd, arg)>>
        /\ lastReply' = r
        /\ stack' = <<>>
        /\ outcome' = IF Rejected(r) THEN CCMotorCommunicationError(op)
                      ELSE Returned

set_enable ==
    /\ UNCHANGED <<min_limit, max_limit>>
    /\ Single("set_enable", 1)
    /\ set_state(1, <<>>, <<>>)

set_disable ==
    /\ UNCHANGED <<min_limit, max_limit>>
    /\ Single("set_disable", 0)
    /\ set_state(0, <<>>, <<>>)

set_homing_velocity ==
    \E v \in Speeds :
        /\ UNCHANGED <<min_limit, max_limit>>
        /\ Single("set_homing_velocity", v)
        /\ SetCommand("set_homing_velocity", "OH_Set", ClampVelocity(v))

velocity_setter ==
    \E v \in Speeds :
        /\ UNCHANGED <<min_limit, max_limit>>
        /\ Single("velocity_setter", v)
        /\ SetCommand("velocity_setter", "VA_Set", ClampVelocity(v))

init_position_async ==
    /\ UNCHANGED <<min_limit, max_limit>>
    /\ Single("init_position_async", 0)
    /\ SetCommand("init_position_async", "OR", 0)

\* a numeric query: answered with a value, or failed
Query(op, cmd, values) ==
    \E r \in QueryReplies(cmd, values) :
        /\ log' = <<>>
        /\ lastReply' = r
        /\ stack' = <<>>
        /\ outcome' = IF Rejected(r) THEN CCMotorCommunicationError(op)
                      ELSE Returned

cur_pos ==
    /\ UNCHANGED <<min_limit, max_limit>>
    /\ Single("cur_pos", 0)
    /\ Query("cur_pos_mm", "TP", ReportedMm)

velocity_getter ==
    /\ UNCHANGED <<min_limit, max_limit>>
    /\ Single("velocity_getter", 0)
    /\ Query("velocity_getter", "VA_Get", Speeds)

\* get_limits: SL_Get into self.min_limit and, when it is answered, SR_Get
\* into self.max_limit; `after` is the stack the caller goes on with
GetLimits(after) ==
    \E l \in QueryReplies("SL_Get", NegativeLimits) :
        IF Rejected(l)
        THEN /\ lastReply' = l
             /\ Raise(CCMotorCommunicationError("get_limits"))
             /\ UNCHANGED <<min_limit, max_limit>>
        ELSE /\ min_limit' = l.val
             /\ \E h \in QueryReplies("SR_Get", PositiveLimits) :
                 /\ lastReply' = h
                 /\ IF Rejected(h)
                    THEN /\ Raise(CCMotorCommunicationError("get_limits"))
                         /\ UNCHANGED max_limit
                    ELSE /\ max_limit' = h.val
                         /\ stack' = after
                         /\ outcome' = IF after = <<>> THEN Returned ELSE outcome

get_limits ==
    /\ Single("get_limits", 0)
    /\ log' = <<>>
    /\ GetLimits(<<>>)

\* get_state: one TS round trip; the answer's state and error code, or
\* CCMotorCommunicationError when the answer carries an error string
GetState(op, field) ==
    /\ Single(op, 0)
    /\ UNCHANGED <<min_limit, max_limit>>
    /\ log' = <<>>
    /\ stack' = <<>>
    /\ \E r \in StatusReplies :
        /\ lastReply' = r
        /\ outcome' = IF StateQueryFailed(r)
                      THEN CCMotorCommunicationError("get_state")
                      ELSE LET st == StateError(r.state, r.error) IN
                           ReturnedValue(IF field = 0 THEN st
                                         ELSE <<st[field]>>)

get_state == GetState("get_state", 0)

\* the property state: self.get_state().state
state_getter == GetState("state", 1)

\* the property error: self.get_state().error
error_getter == GetState("error", 2)

(********************************* __init__ *********************************)

\* the caller constructs an axis: it holds none, or has closed the one it held
call_init ==
    \E velocity \in Speeds :
        /\ stack = <<>>
        /\ ~constructed \/ driver = "closed"
        /\ stack' = <<Frame("__init__", "open", velocity, 0, 0)>>
        /\ call' = Frame("__init__", "open", velocity, 0, 0)
        /\ log' = <<>>
        /\ lastReply' = NoReply
        /\ readyChecked' = FALSE
        /\ readyPolled' = FALSE
        /\ outcome' = Running
        /\ driver' = "none"
        /\ min_limit' = None
        /\ max_limit' = None
        /\ constructed' = FALSE
        /\ UNCHANGED others

\* an open that is taken to have worked whatever it returns
OpenFailed_never(ret) == FALSE

\* ret != 0 after driver.OpenInstrument
OpenFailed(ret) == ret # 0

\* self.driver.OpenInstrument(com_port)
init_open ==
    /\ At("__init__", "open")
    /\ \E ret \in ResultCodes :
        /\ lastReply' = Reply("OpenInstrument", ret, "", "", 0)
        /\ UNCHANGED <<call, log, readyChecked, readyPolled,
                       min_limit, max_limit, constructed, others>>
        /\ IF OpenFailed(ret)
           THEN /\ Raise(CCMotorCommunicationError("__init__"))
                /\ UNCHANGED driver
           ELSE /\ driver' = "open"
                /\ stack' = WithTop([Top EXCEPT !.pc = "velocity"])
                /\ UNCHANGED outcome

\* a velocity command of the constructor: written, and rejected or accepted
InitCommand(site, cmd, next) ==
    \E r \in CommandReplies(cmd) :
        /\ log' = Append(log, Command(cmd, ClampVelocity(Top.arg)))
        /\ lastReply' = r
        /\ UNCHANGED <<call, readyChecked, readyPolled>>
        /\ UNCHANGED <<axis, others>>
        /\ IF Rejected(r)
           THEN Raise(CCMotorCommunicationError(site))
           ELSE /\ stack' = WithTop([Top EXCEPT !.pc = next])
                /\ UNCHANGED outcome

\* self.velocity = velocity
init_velocity ==
    /\ At("__init__", "velocity")
    /\ InitCommand("velocity_setter", "VA_Set", "homing_velocity")

\* self.set_homing_velocity(velocity)
init_homing_velocity ==
    /\ At("__init__", "homing_velocity")
    /\ InitCommand("set_homing_velocity", "OH_Set", "limits")

\* self.min_limit = None; self.max_limit = None; self.get_limits()
init_limits ==
    /\ At("__init__", "limits")
    /\ UNCHANGED <<call, log, readyChecked, readyPolled, driver, constructed>>
    /\ UNCHANGED others
    /\ GetLimits(WithTop([Top EXCEPT !.pc = "position"]))

\* logger.debug(..., self.cur_pos_mm): one position query, and the
\* constructor returns
init_position ==
    /\ At("__init__", "position")
    /\ \E r \in QueryReplies("TP", ReportedMm) :
        /\ lastReply' = r
        /\ UNCHANGED <<call, log, readyChecked, readyPolled,
                       driver, min_limit, max_limit, others>>
        /\ IF Rejected(r)
           THEN /\ Raise(CCMotorCommunicationError("cur_pos_mm"))
                /\ UNCHANGED constructed
           ELSE /\ Return
                /\ constructed' = TRUE

(*********************************** close **********************************)

\* a close that disables the axis before it releases the handle
close_disabling ==
    /\ stack = <<>>
    /\ constructed
    /\ driver = "open"
    /\ driver' = "closed"
    /\ call' = Frame("close", "", 0, 0, 0)
    /\ log' = <<Command("MM_Set", 0)>>
    /\ lastReply' = Reply("MM_Set", 0, "", "", 0)
    /\ readyChecked' = FALSE
    /\ readyPolled' = FALSE
    /\ outcome' = Returned
    /\ UNCHANGED <<stack, min_limit, max_limit, constructed, others>>

\* self.driver.CloseInstrument()
close ==
    /\ stack = <<>>
    /\ constructed
    /\ driver = "open"
    /\ driver' = "closed"
    /\ call' = Frame("close", "", 0, 0, 0)
    /\ log' = <<>>
    /\ lastReply' = NoReply
    /\ readyChecked' = FALSE
    /\ readyPolled' = FALSE
    /\ outcome' = Returned
    /\ UNCHANGED <<stack, min_limit, max_limit, constructed, others>>

(*************************** two axes, two threads ***************************)

\* Two ConexCC instances, each used by a thread of its own.  An axis has the
\* attributes of its instance (driver, min_limit, max_limit) and the place
\* of its thread in init_position_sync: its polling loop with the locals
\* timeout, n_retry and the time elapsed since time_start, and the Event
\* that sleep() creates and waits on.
Axes == {1, 2}

Thread(drv, lo, hi, pc, timeout, n_retry, elapsed, event) ==
    [driver |-> drv, min_limit |-> lo, max_limit |-> hi, pc |-> pc,
     timeout |-> timeout, n_retry |-> n_retry, elapsed |-> elapsed,
     event |-> event]

\* an axis after its construction, its thread outside any call
IdleThread(lo, hi) == Thread("open", lo, hi, "idle", 0, 0, 0, "none")

\* the thread has ended its call (returned or raised)
ThreadEnds(a) ==
    threads' = [threads EXCEPT ![a].pc = "idle", ![a].elapsed = 0,
                               ![a].timeout = 0, ![a].n_retry = 0]

\* a wait that holds every thread while any thread waits
Suspended_all(a) == \E b \in Axes : threads[b].event = "waiting"

\* event.wait(delay) on the Event that sleep() has just created: the thread
\* that called sleep() is suspended until the delay is over
Suspended(a) == threads[a].event = "waiting"

\* the thread of axis a can run a statement of its own
Runs(a, pc) ==
    /\ ~Suspended(a)
    /\ threads[a].pc = pc
    /\ UNCHANGED <<single, position, analyzer, aom>>

\* init_position_async at the head of init_position_sync, then
\* time_start = time.time()
thread_init_position_sync(a) ==
    /\ Runs(a, "idle")
    /\ threads[a].driver = "open"
    /\ \E t \in Timeouts, n \in Retries, r \in CommandReplies("OR") :
        IF Rejected(r)
        THEN ThreadEnds(a)
        ELSE threads' = [threads EXCEPT ![a].pc = "loop", ![a].timeout = t,
                                        ![a].n_retry = n, ![a].elapsed = 0]

\* the head of the loop: time is up (retry, or CCMotorTimeoutError), or
\* sleep(MOVEMENT_SLEEP_TIME) begins: event = threading.Event(), event.wait
thread_loop(a) ==
    /\ Runs(a, "loop")
    /\ IF ~TimedOut(threads[a].elapsed, threads[a].timeout)
       THEN threads' = [threads EXCEPT ![a].pc = "sleep",
                                       ![a].event = "waiting"]
       ELSE IF HomingRetryLeft(threads[a].n_retry)
       THEN \E r \in CommandReplies("OR") :
               IF Rejected(r)
               THEN ThreadEnds(a)
               ELSE threads' = [threads EXCEPT ![a].n_retry = @ - 1,
                                               ![a].elapsed = 0]
       ELSE ThreadEnds(a)

\* the delay is over: event.wait returns, event.clear(), sleep returns
thread_wake(a) ==
    /\ Suspended(a)
    /\ threads[a].pc = "sleep"
    /\ UNCHANGED <<single, position, analyzer, aom>>
    /\ \E d \in Durations :
        threads' = [threads EXCEPT ![a].pc = "poll", ![a].event = "none",
                                   ![a].elapsed = @ + d]

\* done = self.is_ready
thread_poll(a) ==
    /\ Runs(a, "poll")
    /\ \E r \in StateReplies :
        IF StateQueryFailed(r) \/ is_ready(r.state)
        THEN ThreadEnds(a)
        ELSE threads' = [threads EXCEPT ![a].pc = "loop"]

\* get_limits on the thread's own axis
thread_get_limits(a) ==
    /\ Runs(a, "idle")
    /\ threads[a].driver = "open"
    /\ \E l \in QueryReplies("SL_Get", NegativeLimits) :
        IF Rejected(l)
        THEN UNCHANGED threads
        ELSE \E h \in QueryReplies("SR_Get", PositiveLimits) :
             IF Rejected(h)
             THEN threads' = [threads EXCEPT ![a].min_limit = l.val]
             ELSE threads' = [threads EXCEPT ![a].min_limit = l.val,
                                             ![a].max_limit = h.val]

\* close on the thread's own axis
thread_close(a) ==
    /\ Runs(a, "idle")
    /\ threads[a].driver = "open"
    /\ threads' = [threads EXCEPT ![a].driver = "closed"]

\* any statement of the thread of axis a
ThreadStep(a) ==
    \/ thread_init_position_sync(a)
    \/ thread_loop(a)
    \/ thread_wake(a)
    \/ thread_poll(a)
    \/ thread_get_limits(a)
    \/ thread_close(a)

(********************************* analyzers ********************************)

\* what the operations of an analyzer leave alone
notAnalyzer == <<single, threads, position, aom>>

\* the two analyzer drivers
VaClasses == {"VSA", "RSVectorAnalyser"}

\* class STATUS(Enum)
MEASUREMENT_DONE == 0
ACQUIRING == 4
RECORDING == 128
AVERAGE_COMPLETE == 256
MEASURING == 2^30

\* the status word the analyzer reports: flags of STATUS added up
Statuses ==
    {MEASUREMENT_DONE, ACQUIRING, RECORDING + ACQUIRING, AVERAGE_COMPLETE,
     AVERAGE_COMPLETE + ACQUIRING, MEASURING, MEASURING + AVERAGE_COMPLETE}

\* Python's & on non-negative integers
RECURSIVE BitAnd(_, _)
BitAnd(a, b) ==
    IF a = 0 \/ b = 0
    THEN 0
    ELSE (a % 2) * (b % 2) + 2 * BitAnd(a \div 2, b \div 2)

\* STATUS.__eq__ and STATUS.__ne__: `current == STATUS.X` is decided by the
\* reflected STATUS.__eq__(STATUS.X, current)
STATUS_eq(value, o) == BitAnd(value, o) # 0

STATUS_ne(value, o) == ~STATUS_eq(value, o)

\* VSA.measurement_ready, of the status it has read
measurement_ready(current) ==
    /\ STATUS_eq(MEASUREMENT_DONE, current)
    /\ STATUS_eq(AVERAGE_COMPLETE, current)
    /\ STATUS_ne(MEASURING, current)

\* visa_instr.timeout while measurement_done waits for the answer to *OPC?
OpcTimeout(class) == IF class = "VSA" THEN 100 ELSE 60000

\* self.visa_instr.timeout = previous_timeout, on both ways out of
\* measurement_done
RestoredTimeout_forgotten(previous, current, answered) ==
    IF answered THEN previous ELSE current

RestoredTimeout(previous, current, answered) == previous

\* what `except Exception` catches: _recall raises a bare BaseException
Exceptions == {"VisaIOError", "ValueError"}

IsException(error) == error \in Exceptions

Robust == {"take_sa_curve_vi_error_robust", "recall_state_vi_error_robust"}

\* the first round trip of an attempt
FirstStep(op) ==
    CASE op = "recall_state_vi_error_robust" -> "clear_errors"
      [] OTHER -> IF va_class = "VSA" THEN "repeat_get" ELSE "immediately"

\* a call of an analyzer operation begins
VaBegin(op, arg, pc) ==
    /\ va_class \in VaClasses
    /\ va_pc = "idle"
    /\ va_call' = op
    /\ va_arg' = arg
    /\ va_pc' = pc
    /\ timeout_before' = visa_instr_timeout
    /\ repeat_before' = average_repeat
    /\ avg_repeat_status' = FALSE
    /\ va_reply' = "none"
    /\ va_status' = None
    /\ va_outcome' = "running"
    /\ UNCHANGED <<va_class, average_repeat, notAnalyzer>>

\* the operation goes on with its next round trip
VaGoto(pc) ==
    /\ va_pc' = pc
    /\ UNCHANGED <<va_n_retry, attempts, va_outcome>>

\* the operation returns value
VaReturn(value) ==
    /\ va_pc' = "idle"
    /\ va_outcome' = value
    /\ UNCHANGED <<va_n_retry, attempts>>

\* error is raised: the *_vi_error_robust loops catch an Exception, give up
\* when n_retry < 0 and begin the next attempt (n_retry -= 1) otherwise;
\* everywhere else the error ends the call
VaRaise(error) ==
    IF va_call \in Robust /\ IsException(error) /\ ~(va_n_retry < 0)
    THEN /\ va_pc' = FirstStep(va_call)
         /\ va_n_retry' = va_n_retry - 1
         /\ attempts' = attempts + 1
         /\ UNCHANGED va_outcome
    ELSE /\ va_pc' = "idle"
         /\ va_outcome' = error
         /\ UNCHANGED <<va_n_retry, attempts>>

\* one round trip of the instrument handle: the answer arrives ("ok" for a
\* write, "answer" for a query), or it cannot be converted (ValueError of
\* int() or float()), or the handle raises VisaIOError
VaRoundTrip(pc, next, replies) ==
    /\ va_pc = pc
    /\ \E reply \in replies :
        /\ va_reply' = reply
        /\ CASE reply \in {"ok", "answer"} -> VaGoto(next)
             [] reply = "garbled" -> VaRaise("ValueError")
             [] OTHER -> VaRaise("VisaIOError")
    /\ UNCHANGED <<va_class, visa_instr_timeout, average_repeat, va_call, va_arg,
                   previous_timeout, avg_repeat_status, timeout_before,
                   repeat_before, va_status, notAnalyzer>>

\* self.write(...)
VaWrite(pc, next) == VaRoundTrip(pc, next, {"ok", "VisaIOError"})

\* self.ask(...) whose answer is used as it is
VaQuery(pc, next) == VaRoundTrip(pc, next, {"answer", "VisaIOError"})

\* self.ask(...) whose answer is converted to numbers
VaAsk(pc, next) == VaRoundTrip(pc, next, {"answer", "garbled", "VisaIOError"})

(****************************** measurement_done ****************************)

call_measurement_done ==
    /\ VaBegin("measurement_done", 0, "opc_ask")
    /\ va_n_retry' = 0
    /\ attempts' = 0
    /\ previous_timeout' = 0
    /\ UNCHANGED visa_instr_timeout

\* previous_timeout = self.visa_instr.timeout; self.visa_instr.timeout = ...;
\* the query *OPC? is sent
measurement_done_ask ==
    /\ va_pc = "opc_ask"
    /\ previous_timeout' = visa_instr_timeout
    /\ visa_instr_timeout' = OpcTimeout(va_class)
    /\ VaGoto("opc")
    /\ UNCHANGED <<va_class, average_repeat, va_call, va_arg, avg_repeat_status,
                   timeout_before, repeat_before, va_reply, va_status,
                   notAnalyzer>>

\* the answer to *OPC? arrives, or VisaIOError when the timeout is over; in
\* wait_measurment_done / wait_measurement_done a False is followed by
\* sleep(delay) and the next read
measurement_done_answer ==
    /\ va_pc = "opc"
    /\ \E reply \in {"1", "VisaIOError"} :
        /\ va_reply' = reply
        /\ visa_instr_timeout' =
              RestoredTimeout(previous_timeout, visa_instr_timeout, reply = "1")
        /\ IF va_call = "measurement_done"
           THEN VaReturn(IF reply = "1" THEN "True" ELSE "False")
           ELSE VaGoto(IF reply # "1" THEN "opc_ask"
                       ELSE IF va_class = "VSA" THEN "format_get"
                       ELSE "format_set")
    /\ UNCHANGED <<va_class, average_repeat, va_call, va_arg, previous_timeout,
                   avg_repeat_status, timeout_before, repeat_before, va_status,
                   notAnalyzer>>

(****************************** take_sample_curve ***************************)

call_take_sample_curve ==
    /\ VaBegin("take_sample_curve", 0, FirstStep("take_sample_curve"))
    /\ va_n_retry' = 0
    /\ attempts' = 1
    /\ previous_timeout' = 0
    /\ UNCHANGED visa_instr_timeout

\* VSA: avg_repeat_status = self.average_repeat
take_sample_curve_repeat_get ==
    /\ va_pc = "repeat_get"
    /\ \E reply \in {"answer", "garbled", "VisaIOError"} :
        /\ va_reply' = reply
        /\ CASE reply = "answer" ->
                  /\ avg_repeat_status' = average_repeat
                  /\ VaGoto("repeat_off")
             [] reply = "garbled" ->
                  /\ VaRaise("ValueError")
                  /\ UNCHANGED avg_repeat_status
             [] OTHER ->
                  /\ VaRaise("VisaIOError")
                  /\ UNCHANGED avg_repeat_status
    /\ UNCHANGED <<va_class, visa_instr_timeout, average_repeat, va_call, va_arg,
                   previous_timeout, timeout_before, repeat_before, va_status,
                   notAnalyzer>>

\* the average_repeat setter: self.write(f"SENSe:AVERage:REPeat {val:d}")
SetAverageRepeat(pc, val, then) ==
    /\ va_pc = pc
    /\ \E reply \in {"ok", "VisaIOError"} :
        /\ va_reply' = reply
        /\ IF reply = "ok"
           THEN average_repeat' = val /\ then
           ELSE UNCHANGED average_repeat /\ VaRaise("VisaIOError")
    /\ UNCHANGED <<va_class, visa_instr_timeout, va_call, va_arg,
                   previous_timeout, avg_repeat_status, timeout_before,
                   repeat_before, va_status, notAnalyzer>>

\* VSA: self.average_repeat = False
take_sample_curve_repeat_off ==
    SetAverageRepeat("repeat_off", FALSE, VaGoto("immediately"))

\* single: self.immediately()
single_immediately == VaWrite("immediately", "opc_ask")

\* VSA._visa_get_data: backup_format = self.get_format(trace=trace)
visa_get_data_format_get ==
    /\ va_class = "VSA"
    /\ VaQuery("format_get", "format_set")

\* _visa_get_data: self.set_format(...)
visa_get_data_format_set == VaWrite("format_set", "data_x")

\* _visa_get_data: data_x
visa_get_data_x == VaAsk("data_x", "data_y")

\* the curve has been read: VSA restores the format, RSVectorAnalyser
\* returns
CurveRead ==
    IF va_class = "VSA" THEN VaGoto("format_restore") ELSE VaReturn("curve")

\* _visa_get_data: data_y
visa_get_data_y ==
    /\ va_pc = "data_y"
    /\ \E reply \in {"answer", "garbled", "VisaIOError"} :
        /\ va_reply' = reply
        /\ CASE reply = "answer" -> CurveRead
             [] reply = "garbled" -> VaRaise("ValueError")
             [] OTHER -> VaRaise("VisaIOError")
    /\ UNCHANGED <<va_class, visa_instr_timeout, average_repeat, va_call, va_arg,
                   previous_timeout, avg_repeat_status, timeout_before,
                   repeat_before, va_status, notAnalyzer>>

\* VSA._visa_get_data: self.set_format(backup_format, trace=trace)
visa_get_data_format_restore == VaWrite("format_restore", "repeat_restore")

\* VSA: self.average_repeat = avg_repeat_status; return curve
take_sample_curve_repeat_restore ==
    SetAverageRepeat("repeat_restore", avg_repeat_status, VaReturn("curve"))

(******************************* *_vi_error_robust **************************)

\* while True: try: n_retry -= 1; return self.take_sample_curve()
call_take_sa_curve_vi_error_robust ==
    \E n \in VaRetries :
        /\ VaBegin("take_sa_curve_vi_error_robust", n,
                   FirstStep("take_sa_curve_vi_error_robust"))
        /\ va_n_retry' = n - 1
        /\ attempts' = 1
        /\ previous_timeout' = 0
        /\ UNCHANGED visa_instr_timeout

\* while True: try: n_retry -= 1; self.recall(filename=filename); return
call_recall_state_vi_error_robust ==
    \E n \in VaRetries :
        /\ VaBegin("recall_state_vi_error_robust", n,
                   FirstStep("recall_state_vi_error_robust"))
        /\ va_n_retry' = n - 1
        /\ attempts' = 1
        /\ previous_timeout' = 0
        /\ UNCHANGED visa_instr_timeout

\* _recall: self.clear_errors() reads the errors until there is none
recall_clear_errors ==
    /\ va_pc = "clear_errors"
    /\ \E reply \in {"No error", "", "error", "VisaIOError"} :
        /\ va_reply' = reply
        /\ CASE reply \in {"No error", ""} ->
                  VaGoto(IF va_class = "VSA" THEN "load" ELSE "load_type")
             [] reply = "error" -> VaGoto("clear_errors")
             [] OTHER -> VaRaise("VisaIOError")
    /\ UNCHANGED <<va_class, visa_instr_timeout, average_repeat, va_call, va_arg,
                   previous_timeout, avg_repeat_status, timeout_before,
                   repeat_before, va_status, notAnalyzer>>

\* RSVectorAnalyser._recall: self.write("MMEM:LOAD:TYPE REPLace")
recall_load_type == VaWrite("load_type", "load")

\* _recall: the setup file is loaded
recall_load == VaWrite("load", "error")

\* _recall: err = self.error; if "No error" not in err: raise BaseException
recall_error ==
    /\ va_pc = "error"
    /\ \E reply \in {"No error", "", "error", "VisaIOError"} :
        /\ va_reply' = reply
        /\ CASE reply = "No error" -> VaReturn("None")
             [] reply = "VisaIOError" -> VaRaise("VisaIOError")
             [] OTHER -> VaRaise("BaseException")
    /\ UNCHANGED <<va_class, visa_instr_timeout, average_repeat, va_call, va_arg,
                   previous_timeout, avg_repeat_status, timeout_before,
                   repeat_before, va_status, notAnalyzer>>

(**************************** wait_measurement_ready *************************)

\* sleep_function: async_utils.sleep returns None; a caller's function
\* returns what it likes
SleepResults(sleep_function) ==
    IF sleep_function = "sleep" THEN {"None"} ELSE {"None", "True", "False"}

call_wait_measurement_ready ==
    \E f \in {"sleep", "custom"} :
        /\ va_class = "VSA"
        /\ VaBegin("wait_measurement_ready", f, "status")
        /\ va_n_retry' = 0
        /\ attempts' = 0
        /\ previous_timeout' = 0
        /\ UNCHANGED visa_instr_timeout

\* while not self.measurement_ready: the status is read and judged
wait_measurement_ready_status ==
    /\ va_pc = "status"
    /\ \/ \E current \in Statuses :
            /\ va_reply' = "answer"
            /\ va_status' = current
            /\ IF measurement_ready(current)
               THEN VaReturn("True")
               ELSE VaGoto("sleep")
       \/ \E reply \in {"garbled", "VisaIOError"} :
            /\ va_reply' = reply
            /\ VaRaise(IF reply = "garbled" THEN "ValueError" ELSE "VisaIOError")
            /\ UNCHANGED va_status
    /\ UNCHANGED <<va_class, visa_instr_timeout, average_repeat, va_call, va_arg,
                   previous_timeout, avg_repeat_status, timeout_before,
                   repeat_before, notAnalyzer>>

\* sleep_result = sleep_function(delay); if sleep_result is False: return False
wait_measurement_ready_sleep ==
    /\ va_pc = "sleep"
    /\ \E sleep_result \in SleepResults(va_arg) :
        /\ va_reply' = sleep_result
        /\ IF sleep_result = "False" THEN VaReturn("False") ELSE VaGoto("status")
    /\ UNCHANGED <<va_class, visa_instr_timeout, average_repeat, va_call, va_arg,
                   previous_timeout, avg_repeat_status, timeout_before,
                   repeat_before, va_status, notAnalyzer>>

(********************************** AOM_DDS *********************************)

\* what the AOM_DDS object leaves alone
notAom == <<single, threads, position, analyzer>>

\* Python values, as <<type, number>>: -1, 0, 1, 2, False, True, 1.0, "0",
\* "1" and None
AomValues ==
    {<<"int", -1>>, <<"int", 0>>, <<"int", 1>>, <<"int", 2>>, <<"bool", 0>>,
     <<"bool", 1>>, <<"float", 1>>, <<"str", 0>>, <<"str", 1>>,
     <<"NoneType", 0>>}

\* Python's ==: numbers are compared by value whatever their type, and a
\* string or None equals no number
PyEq(a, b) ==
    /\ a[1] \in {"int", "bool", "float"}
    /\ b[1] \in {"int", "bool", "float"}
    /\ a[2] = b[2]

\* value in (0, 1)
Accepted_any(value) == TRUE

Accepted(value) == \E x \in {<<"int", 0>>, <<"int", 1>>} : PyEq(value, x)

\* AOM_DDS(...): self._device = 0; self.device = 0; then the serial port is
\* opened, which succeeds or raises
aom_init ==
    /\ aom_outcome = "idle"
    /\ \E opened \in BOOLEAN :
        IF opened
        THEN /\ device' = <<"int", 0>>
             /\ aom_outcome' = "constructed"
        ELSE /\ UNCHANGED device
             /\ aom_outcome' = "SerialException"
    /\ UNCHANGED <<assigned, notAom>>

\* the device setter
device_setter ==
    /\ aom_outcome \in {"constructed", "None", "ValueError"}
    /\ Len(assigned) < MaxAssignments
    /\ \E value \in AomValues :
        /\ assigned' = Append(assigned, value)
        /\ IF Accepted(value)
           THEN /\ device' = value
                /\ aom_outcome' = "None"
           ELSE /\ UNCHANGED device
                /\ aom_outcome' = "ValueError"
    /\ UNCHANGED notAom

(******************************* specification ******************************)

Next ==
    \/ call_move_absolute_async
    \/ move_absolute_async_check
    \/ move_absolute_async_not_ready
    \/ move_absolute_async_send
    \/ call_move_relative_async
    \/ move_relative_async_check
    \/ move_relative_async_ready
    \/ move_relative_async_not_ready
    \/ move_relative_async_send
    \/ call_move_relative_sync
    \/ move_relative_sync_poll
    \/ move_relative_sync_timeout
    \/ call_init_position_sync
    \/ init_position_sync_start
    \/ init_position_sync_poll
    \/ init_position_sync_timeout
    \/ call_move_absolute_sync
    \/ move_absolute_sync_poll
    \/ move_absolute_sync_timeout
    \/ move_absolute_sync_retry
    \/ set_enable
    \/ set_disable
    \/ set_homing_velocity
    \/ velocity_setter
    \/ init_position_async
    \/ cur_pos
    \/ velocity_getter
    \/ get_limits
    \/ get_state
    \/ call_init
    \/ init_open
    \/ init_velocity
    \/ init_homing_velocity
    \/ init_limits
    \/ init_position
    \/ close

Spec == Init /\ [][Next]_vars

\* init_position_and_come_back alone, with every step it can take: its
\* default arguments (30 s, 3 retries, at both levels) give it far longer
\* runs than any other operation
NextComeBack ==
    \/ call_init_position_and_come_back
    \/ init_position_and_come_back_read
    \/ init_position_and_come_back_move
    \/ init_position_sync_start
    \/ init_position_sync_poll
    \/ init_position_sync_timeout
    \/ move_absolute_async_check
    \/ move_absolute_async_not_ready
    \/ move_absolute_async_send
    \/ move_absolute_sync_poll
    \/ move_absolute_sync_timeout
    \/ move_absolute_sync_retry

\* an axis whose construction has succeeded, the limits of the whole travel
\* cached (the operation does not read them)
InitComeBack ==
    /\ stack = <<>>
    /\ call = NoCall
    /\ log = <<>>
    /\ lastReply = NoReply
    /\ readyChecked = FALSE
    /\ readyPolled = FALSE
    /\ outcome = Idle
    /\ driver = "open"
    /\ min_limit = 0
    /\ max_limit = MaxReportedMm
    /\ constructed = TRUE
    /\ threads = <<>>
    /\ position = 0
    /\ NoAnalyzer
    /\ NoAom

SpecComeBack == InitComeBack /\ [][NextComeBack]_vars

\* the state queries of a constructed axis: get_state and the two properties
\* that are made of it
NextStateQuery ==
    \/ get_state
    \/ state_getter
    \/ error_getter

SpecStateQuery == InitComeBack /\ [][NextStateQuery]_vars

\* two constructed axes and their threads, interleaved statement by statement
InitTwoAxes ==
    /\ stack = <<>>
    /\ call = NoCall
    /\ log = <<>>
    /\ lastReply = NoReply
    /\ readyChecked = FALSE
    /\ readyPolled = FALSE
    /\ outcome = Idle
    /\ driver = "none"
    /\ min_limit = None
    /\ max_limit = None
    /\ constructed = FALSE
    /\ threads \in [Axes -> {IdleThread(lo, hi) : lo \in NegativeLimits,
                                                  hi \in PositiveLimits}]
    /\ position = 0
    /\ NoAnalyzer
    /\ NoAom

NextTwoAxes ==
    \E a \in Axes :
        \/ thread_init_position_sync(a)
        \/ thread_loop(a)
        \/ thread_wake(a)
        \/ thread_poll(a)
        \/ thread_get_limits(a)
        \/ thread_close(a)

SpecTwoAxes == InitTwoAxes /\ [][NextTwoAxes]_vars

\* the operations of one analyzer, one call at a time
InitAnalyzer ==
    /\ NoAxis
    /\ NoAom
    /\ va_class \in VaClasses
    /\ visa_instr_timeout \in HandleTimeouts
    /\ average_repeat \in BOOLEAN
    /\ va_call = "none"
    /\ va_arg = 0
    /\ va_pc = "idle"
    /\ previous_timeout = 0
    /\ avg_repeat_status = FALSE
    /\ va_n_retry = 0
    /\ attempts = 0
    /\ timeout_before = 0
    /\ repeat_before = FALSE
    /\ va_reply = "none"
    /\ va_status = None
    /\ va_outcome = "idle"

NextAnalyzer ==
    \/ call_measurement_done
    \/ measurement_done_ask
    \/ measurement_done_answer
    \/ call_take_sample_curve
    \/ take_sample_curve_repeat_get
    \/ take_sample_curve_repeat_off
    \/ single_immediately
    \/ visa_get_data_format_get
    \/ visa_get_data_format_set
    \/ visa_get_data_x
    \/ visa_get_data_y
    \/ visa_get_data_format_restore
    \/ take_sample_curve_repeat_restore
    \/ call_take_sa_curve_vi_error_robust
    \/ call_recall_state_vi_error_robust
    \/ recall_clear_errors
    \/ recall_load_type
    \/ recall_load
    \/ recall_error
    \/ call_wait_measurement_ready
    \/ wait_measurement_ready_status
    \/ wait_measurement_ready_sleep

SpecAnalyzer == InitAnalyzer /\ [][NextAnalyzer]_vars

\* one AOM_DDS object and the assignments to its device
InitAom == NoAxis /\ NoAnalyzer /\ NoAom

NextAom ==
    \/ aom_init
    \/ device_setter

SpecAom == InitAom /\ [][NextAom]_vars

\* the asynchronous moves of a constructed axis whose stage also moves on
\* its own (an earlier motion that is still going on, another client of the
\* controller): the position query answers where the stage is at that moment
InitStage ==
    /\ stack = <<>>
    /\ call = NoCall
    /\ log = <<>>
    /\ lastReply = NoReply
    /\ readyChecked = FALSE
    /\ readyPolled = FALSE
    /\ outcome = Idle
    /\ driver = "open"
    /\ min_limit = 0
    /\ max_limit = MaxReportedMm
    /\ constructed = TRUE
    /\ threads = <<>>
    /\ position \in ReportedMm
    /\ NoAnalyzer
    /\ NoAom

\* the stage moves between two round trips
stage_moves ==
    /\ position' \in ReportedMm \ {position}
    /\ UNCHANGED <<single, threads, analyzer, aom>>

\* cur_pos of a stage that is somewhere
move_relative_async_check_stage ==
    /\ move_relative_async_check
    /\ Rejected(lastReply') \/ lastReply'.val = position

NextStage ==
    \/ stage_moves
    \/ call_move_absolute_async
    \/ move_absolute_async_check
    \/ move_absolute_async_not_ready
    \/ move_absolute_async_send
    \/ call_move_relative_async
    \/ move_relative_async_check_stage
    \/ move_relative_async_ready
    \/ move_relative_async_not_ready
    \/ move_relative_async_send

SpecStage == InitStage /\ [][NextStage]_vars

\* the three waiting operations of a constructed axis; a call that has
\* begun goes on running: the thread that executes it is not stopped, every
\* round trip is answered, and every iteration of a polling loop takes time
NextSync ==
    \/ call_init_position_sync
    \/ init_position_sync_start
    \/ init_position_sync_poll
    \/ init_position_sync_timeout
    \/ call_move_relative_sync
    \/ move_relative_async_check
    \/ move_relative_async_ready
    \/ move_relative_async_not_ready
    \/ move_relative_async_send
    \/ move_relative_sync_poll
    \/ move_relative_sync_timeout
    \/ call_move_absolute_sync
    \/ move_absolute_async_check
    \/ move_absolute_async_not_ready
    \/ move_absolute_async_send
    \/ move_absolute_sync_poll
    \/ move_absolute_sync_timeout
    \/ move_absolute_sync_retry

RunningCallGoesOn == stack # <<>> /\ NextSync

SpecSync ==
    InitComeBack /\ [][NextSync]_vars /\ WF_vars(RunningCallGoesOn)

(********************************* claims ***********************************)

Ended == stack = <<>> /\ outcome.kind \notin {"idle", "running"}

Sent(cmd) == Cardinality({i \in DOMAIN log : log[i].cmd = cmd})

AbsoluteMoves == {"move_absolute_async", "move_absolute_sync"}

RelativeMoves == {"move_relative_async", "move_relative_sync"}

\* C1: an absolute move (async or sync) to a position p > MAX_RUN = 37000
\* ends with CCMotorRangeExceededError(pos = p, max_pos = MAX_RUN) raised by
\* the range check, and the call makes no transport round trip at all: no
\* command is written and not even the state is queried.
C1_AbsoluteBeyondRunRejected ==
    (call.proc \in AbsoluteMoves /\ call.arg > 37000) =>
        /\ log = <<>>
        /\ lastReply = NoReply
        /\ stack # <<>> => outcome = Running /\ Top.pc = "start"
        /\ stack = <<>> =>
             outcome = CCMotorRangeExceededError("move_absolute_async",
                                                 call.arg, 37000)

C1_Witness ==
    /\ call.proc = "move_absolute_sync"
    /\ call.arg = 41000
    /\ outcome.kind = "CCMotorRangeExceededError"
    /\ outcome.pos = 41000
    /\ outcome.max_pos = 37000

\* C2: when the position read at the start of a relative move (mm, times
\* 1000) plus the distance exceeds MAX_RUN, the call ends at once with
\* CCMotorRangeExceededError(pos = position + distance, max_pos = MAX_RUN)
\* and no command (no PR_Set) has been written.
C2_RelativeBeyondRunRejected ==
    (/\ call.proc \in RelativeMoves
     /\ lastReply.cmd = "TP" /\ lastReply.res = 0 /\ lastReply.err = ""
     /\ lastReply.val * 1000 + call.arg > 37000) =>
        /\ stack = <<>>
        /\ outcome = CCMotorRangeExceededError("move_relative_async",
                         lastReply.val * 1000 + call.arg, 37000)
        /\ log = <<>>

C2_Witness ==
    /\ call.proc = "move_relative_async"
    /\ call.arg = 40000
    /\ lastReply.cmd = "TP" /\ lastReply.val = 1
    /\ outcome.kind = "CCMotorRangeExceededError"
    /\ outcome.pos = 41000
    /\ outcome.max_pos = 37000
    /\ Sent("PR_Set") = 0

\* the readiness check of a move has just seen a state that is not ready
SawNotReady ==
    /\ stack # <<>>
    /\ Top.proc \in {"move_absolute_async", "move_relative_async"}
    /\ Top.pc = "not_ready"

\* the step writes a move command
WritesMove ==
    /\ Len(log') = Len(log) + 1
    /\ log'[Len(log')].cmd \in {"PR_Set", "PA_Set"}

EndedOnStates ==
    /\ Ended
    /\ outcome.kind \notin {"CCMotorCommunicationError", "ValueError",
                             "CCMotorRangeExceededError"}

Homing == [i \in 1..(DefaultRetry + 1) |-> Command("OR", 0)]

\* C4 as claimed (granting that the readiness check before the first move
\* sees a ready state): when no polling loop of move_absolute_sync(p, t, N)
\* ever sees a ready state, the call writes N + 1 absolute moves and fails
\* with CCMotorTimeoutError carrying t.
C4_NeverReadyRetriesAllMoves ==
    (/\ call.proc = "move_absolute_sync"
     /\ EndedOnStates
     /\ readyChecked
     /\ ~readyPolled) =>
        /\ outcome.kind = "CCMotorTimeoutError"
        /\ outcome.timeout = call.timeout
        /\ Sent("PA_Set") = call.n_retry + 1

\* C4 as amended: move_absolute_sync(p, t, N) never writes more than N + 1
\* absolute moves.  When it fails with the CCMotorTimeoutError of its own
\* polling loop, it has written exactly N + 1 absolute moves and N enables,
\* every recovery homing in between has seen a ready state, and the error
\* carries t.  When no polling loop at all ever sees a ready state (the
\* first readiness check did), it writes one absolute move and, for N = 0,
\* fails with CCMotorTimeoutError carrying t; for N > 0 it writes one
\* enable and the DefaultRetry + 1 = 4 find-home commands of the recovery
\* homing and fails with that homing's CCMotorTimeoutError, which carries
\* the homing's default timeout (30), not t.  A transport that reports no
\* ready state to the first readiness check either gets CCMotorStateError
\* and no command at all.
C4_TimeoutOfMoveAbsoluteSync ==
    (call.proc = "move_absolute_sync") =>
        /\ Sent("PA_Set") <= call.n_retry + 1
        /\ (Ended /\ outcome.kind = "CCMotorTimeoutError"
                  /\ outcome.site = "move_absolute_sync") =>
             /\ outcome.timeout = call.timeout
             /\ outcome.waited > call.timeout
             /\ Sent("PA_Set") = call.n_retry + 1
             /\ Sent("MM_Set") = call.n_retry
             /\ Sent("OR") >= call.n_retry
             /\ call.n_retry > 0 => readyPolled
        /\ (Ended /\ outcome.kind = "CCMotorTimeoutError"
                  /\ outcome.site = "init_position_sync") =>
             /\ call.n_retry > 0
             /\ outcome.timeout = DefaultTimeout
             /\ Sent("PA_Set") <= call.n_retry
        /\ (EndedOnStates /\ readyChecked /\ ~readyPolled) =>
             IF call.n_retry = 0
             THEN /\ outcome.kind = "CCMotorTimeoutError"
                  /\ outcome.site = "move_absolute_sync"
                  /\ outcome.timeout = call.timeout
                  /\ log = <<Command("PA_Set", call.arg \div 1000)>>
             ELSE /\ outcome.kind = "CCMotorTimeoutError"
                  /\ outcome.site = "init_position_sync"
                  /\ outcome.timeout = DefaultTimeout
                  /\ log = <<Command("PA_Set", call.arg \div 1000),
                             Command("MM_Set", 1)>> \o Homing
        /\ (EndedOnStates /\ ~readyChecked) =>
             /\ outcome.kind = "CCMotorStateError"
             /\ log = <<>>

\* all retries used: two absolute moves for n_retry = 1, the homing between
\* them done, and the second move timed out too
C4_Witness ==
    /\ call.proc = "move_absolute_sync"
    /\ call.n_retry = 1
    /\ call.timeout # DefaultTimeout
    /\ Ended
    /\ outcome.kind = "CCMotorTimeoutError"
    /\ outcome.site = "move_absolute_sync"
    /\ outcome.timeout = call.timeout
    /\ Sent("PA_Set") = 2

\* C5 as claimed: when no state query of move_relative_sync(d, t) ever
\* answers with a ready state, the call writes exactly one PR_Set and fails
\* with CCMotorTimeoutError.
C5_NeverReadyOneMoveThenTimeout ==
    (/\ call.proc = "move_relative_sync"
     /\ EndedOnStates
     /\ ~readyChecked
     /\ ~readyPolled) =>
        /\ outcome.kind = "CCMotorTimeoutError"
        /\ Sent("PR_Set") = 1

\* C5 as amended: move_relative_sync(d, t) never writes anything but one
\* PR_Set (no second move, no enable, no find-home).  When the readiness
\* check before the move sees a ready state and no poll after the move
\* does, the call has written exactly that one PR_Set (d in mm) and fails
\* with CCMotorTimeoutError carrying t, raised by its own loop once more
\* than t has elapsed.  When the readiness check sees no ready state
\* either, the call fails with CCMotorStateError and writes nothing.
C5_RelativeMoveNotRetried ==
    (call.proc = "move_relative_sync") =>
        /\ log \in {<<>>, <<Command("PR_Set", call.arg \div 1000)>>}
        /\ (EndedOnStates /\ readyChecked /\ ~readyPolled) =>
             /\ outcome.kind = "CCMotorTimeoutError"
             /\ outcome.site = "move_relative_sync"
             /\ outcome.timeout = call.timeout
             /\ outcome.waited > call.timeout
             /\ log = <<Command("PR_Set", call.arg \div 1000)>>
        /\ (Ended /\ outcome.kind = "CCMotorTimeoutError") =>
             /\ readyChecked /\ ~readyPolled
             /\ Sent("PR_Set") = 1
        /\ (EndedOnStates /\ ~readyChecked) =>
             /\ outcome.kind = "CCMotorStateError"
             /\ log = <<>>
        /\ (Ended /\ outcome.kind = "returned") => readyPolled

C5_Witness ==
    /\ call.proc = "move_relative_sync"
    /\ readyChecked /\ ~readyPolled
    /\ outcome.kind = "CCMotorTimeoutError"
    /\ outcome.timeout = call.timeout
    /\ log = <<Command("PR_Set", -1)>>

\* C6: init_position_sync(t, N) writes find-home commands only, one per
\* attempt: while attempt k polls (n_retry = N - k + 1 left, timeout t),
\* k find-home commands have been written, and the attempt began with the
\* elapsed time at zero.  If no poll ever sees a ready state the call ends
\* with CCMotorTimeoutError carrying t after exactly N + 1 find-home
\* commands; a poll that sees a ready state ends the call normally at
\* once, so no find-home command follows it.
C6_HomingAttempts ==
    (call.proc = "init_position_sync") =>
        /\ \A i \in DOMAIN log : log[i] = Command("OR", 0)
        /\ Len(log) <= call.n_retry + 1
        /\ (stack # <<>> /\ Top.pc = "loop") =>
             /\ Len(log) = call.n_retry - Top.n_retry + 1
             /\ Top.timeout = call.timeout
             /\ lastReply.cmd = "OR" => Top.elapsed = 0
        /\ (Ended /\ outcome.kind = "CCMotorTimeoutError") =>
             /\ outcome.timeout = call.timeout
             /\ outcome.waited > call.timeout
             /\ Len(log) = call.n_retry + 1
             /\ ~readyPolled
        /\ (EndedOnStates /\ ~readyPolled) =>
             outcome.kind = "CCMotorTimeoutError"
        /\ readyPolled =>
             /\ Ended
             /\ outcome.kind = "returned"
             /\ lastReply.cmd = "TS" /\ lastReply.state \in READY_STATES

C6_Witness ==
    /\ call.proc = "init_position_sync"
    /\ call.n_retry = 1
    /\ outcome.kind = "CCMotorTimeoutError"
    /\ outcome.timeout = call.timeout
    /\ Len(log) = 2

\* C7: the commands of move_absolute_sync(p, t, N) reach the transport in
\* the order PA_Set(p), then per retry MM_Set(1), one or more OR, PA_Set(p):
\* an enable directly follows an absolute move, find-home commands follow
\* the enable, a re-issued absolute move directly follows a find-home
\* command and is written only after a homing poll has seen a ready state,
\* every absolute move has the same target p (in mm), and the polling
\* attempt that follows the k-th enable has n_retry = N - k.
C7_RecoveryOrder ==
    (call.proc = "move_absolute_sync") =>
        /\ \A i \in DOMAIN log :
             /\ log[i].cmd \in {"PA_Set", "MM_Set", "OR"}
             /\ log[i].cmd = "PA_Set" =>
                  /\ log[i].arg = call.arg \div 1000
                  /\ i > 1 => log[i - 1].cmd = "OR"
             /\ log[i].cmd = "MM_Set" =>
                  /\ log[i].arg = 1
                  /\ i > 1 /\ log[i - 1].cmd = "PA_Set"
             /\ log[i].cmd = "OR" =>
                  i > 1 /\ log[i - 1].cmd \in {"MM_Set", "OR"}
        /\ Sent("PA_Set") > 1 => readyPolled
        /\ Sent("PA_Set") <= Sent("MM_Set") + 1
        /\ \A k \in DOMAIN stack :
             (stack[k].proc = "move_absolute_sync" /\ stack[k].pc = "loop") =>
                 /\ stack[k].n_retry = call.n_retry - Sent("MM_Set")
                 /\ stack[k].arg = call.arg
                 /\ stack[k].timeout = call.timeout

C7_Witness ==
    /\ call.proc = "move_absolute_sync"
    /\ call.arg = MAX_RUN
    /\ Len(log) = 4
    /\ log[1] = Command("PA_Set", 37)
    /\ log[2] = Command("MM_Set", 1)
    /\ log[3] = Command("OR", 0)
    /\ log[4] = Command("PA_Set", 37)

\* C8: whenever the last transport round trip of a call answered with a
\* non-zero result code or a non-empty error string, the call has ended
\* with CCMotorCommunicationError.
C8_FaultsBecomeCommunicationError ==
    (lastReply.res # 0 \/ lastReply.err # "") =>
        /\ stack = <<>>
        /\ outcome.kind = "CCMotorCommunicationError"

\* C9: every call that ends with an error ends with CCMotorError or one of
\* its subtypes.
C9_AllErrorsAreCCMotorErrors ==
    Ended => outcome.kind \in {"returned"} \cup CCMotorErrors

\* C10: the velocity setter and set_homing_velocity write exactly one
\* command (VA_Set, OH_Set) whose value is MAX_VELOCITY when the requested
\* value is above MAX_VELOCITY and the requested value otherwise; the call
\* fails only when the transport rejects the command, never for the value.
C10_VelocityClamped ==
    (call.proc \in {"velocity_setter", "set_homing_velocity"}) =>
        /\ Ended
        /\ Len(log) = 1
        /\ log[1].cmd = (IF call.proc = "velocity_setter" THEN "VA_Set"
                         ELSE "OH_Set")
        /\ call.arg > MAX_VELOCITY => log[1].arg = MAX_VELOCITY
        /\ call.arg <= MAX_VELOCITY => log[1].arg = call.arg
        /\ outcome.kind = "returned" <=>
               (lastReply.res = 0 /\ lastReply.err = "")
        /\ outcome.kind # "returned" =>
               outcome.kind = "CCMotorCommunicationError"

\* 0.9 mm/s is sent as 0.4 mm/s, and the call returns normally
C10_Witness ==
    /\ call.proc = "velocity_setter"
    /\ call.arg = 9
    /\ log = <<Command("VA_Set", 4)>>
    /\ outcome.kind = "returned"

\* the call under way, or just ended, is init_position_and_come_back
ComeBackCall == call.proc = "init_position_and_come_back"

\* init_position_and_come_back is in its homing: the position is recorded,
\* the move back is not begun
ComeBackHoming == stack # <<>> /\ ComeBackCall /\ stack[1].pc = "move"

\* C11: init_position_and_come_back reads the position P first (nothing is
\* written before the read, and the homing starts right after it with the
\* default timeout and retries); the first command written is the find-home
\* command; the move back begins only when the homing has returned on a
\* ready state poll; every absolute move written goes to the recorded P;
\* and a homing that fails ends the call with no absolute move written.
C11_ComeBackOrder ==
    [][ComeBackCall' =>
        /\ At("init_position_and_come_back", "start") /\ stack' # <<>> =>
              /\ log' = <<>>
              /\ stack'[1].arg = MmToUm(lastReply'.val)
              /\ stack'[2] = Frame("init_position_sync", "start", 0,
                                   DefaultTimeout, DefaultRetry)
        /\ log = <<>> /\ log' # <<>> =>
              /\ log' = <<Command("OR", 0)>>
              /\ ComeBackHoming
        /\ ComeBackHoming /\ stack' # <<>> /\ stack'[1].pc = "ret" =>
              /\ Len(stack) = 1
              /\ readyPolled
              /\ lastReply.cmd = "TS" /\ lastReply.state \in READY_STATES
              /\ stack'[2] = Frame("move_absolute_sync", "loop", stack[1].arg,
                                   DefaultTimeout, DefaultRetry)
        /\ WritesMove =>
              /\ stack[1].pc = "ret"
              /\ log'[Len(log')] = Command("PA_Set", UmToMm(stack[1].arg))
        /\ ComeBackHoming /\ stack' = <<>> =>
              /\ outcome'.kind # "returned"
              /\ Sent("PA_Set")' = 0
    ]_vars

\* a position of 1 mm was recorded, the homing was completed, the move back
\* to 1 mm was written and the call returned
C11_Witness ==
    /\ ComeBackCall
    /\ outcome = Returned
    /\ log[1] = Command("OR", 0)
    /\ log[Len(log)] = Command("PA_Set", 1)

\* the call under way, or just ended, is the constructor
ConstructorCall == call.proc = "__init__"

\* the two velocity commands of a constructor called with `velocity`
VelocityCommands(velocity) ==
    LET v == IF velocity > MAX_VELOCITY THEN MAX_VELOCITY ELSE velocity IN
    <<Command("VA_Set", v), Command("OH_Set", v)>>

\* C12: the constructor opens the transport first (nothing is written while
\* the handle is not open); it then writes the axis velocity and the homing
\* velocity, in this order, both with min(velocity, MAX_VELOCITY); it reads
\* the limits after both, the negative one before the positive one, and
\* keeps what was read in min_limit and max_limit; the caller gets the axis
\* only with an open handle, both commands written and both limits cached.
\* When the open returns non-zero the construction ends at once with
\* CCMotorCommunicationError, no handle, no command written, no limit read.
C12_Construction ==
    ConstructorCall =>
        /\ \E n \in 0..2 : log = SubSeq(VelocityCommands(call.arg), 1, n)
        /\ driver # "open" => log = <<>>
        /\ lastReply.cmd = "OpenInstrument" /\ lastReply.res # 0 =>
              /\ stack = <<>>
              /\ outcome = CCMotorCommunicationError("__init__")
              /\ driver = "none"
              /\ log = <<>>
              /\ min_limit = None /\ max_limit = None
              /\ ~constructed
        /\ min_limit # None => Len(log) = 2 /\ min_limit \in NegativeLimits
        /\ max_limit # None => min_limit # None /\ max_limit \in PositiveLimits
        /\ At("__init__", "position") =>
              /\ lastReply.cmd = "SR_Get"
              /\ max_limit = lastReply.val
        /\ outcome = Returned =>
              /\ constructed
              /\ driver = "open"
              /\ log = VelocityCommands(call.arg)
              /\ min_limit # None /\ max_limit # None
        /\ constructed => outcome = Returned

\* a constructor called with a velocity above MAX_VELOCITY has returned,
\* with a positive limit of 25 mm cached
C12_Witness ==
    /\ ConstructorCall
    /\ outcome = Returned
    /\ call.arg > MAX_VELOCITY
    /\ log = <<Command("VA_Set", MAX_VELOCITY), Command("OH_Set", MAX_VELOCITY)>>
    /\ min_limit = 0
    /\ max_limit = 25

\* the step is a call of close()
ClosesAxis == stack = <<>> /\ stack' = <<>> /\ call'.proc = "close"

\* C13: close() releases the handle and does nothing else: it is one step
\* from an open handle to a closed one that writes no command at all (no
\* disable, stop, home or move), makes no round trip with the controller,
\* returns normally, and leaves the cached limits as they were.  Nothing
\* the driver does on close asks the controller to change its state.
C13_CloseOnlyReleases ==
    [][ClosesAxis =>
        /\ driver = "open" /\ driver' = "closed"
        /\ log' = <<>>
        /\ lastReply' = NoReply
        /\ outcome' = Returned
        /\ UNCHANGED <<min_limit, max_limit, constructed>>
    ]_vars

\* a constructed axis has been closed, its cached limits still in place
C13_Witness ==
    /\ call.proc = "close"
    /\ driver = "closed"
    /\ outcome = Returned
    /\ constructed
    /\ min_limit = 0
    /\ max_limit = 25

\* the operations C14 is about
SyncsAndMoves ==
    {"init_position_sync", "move_relative_sync", "move_absolute_sync",
     "move_relative_async", "move_absolute_async"}

\* the failures C14 is about
Failures ==
    {"CCMotorTimeoutError", "CCMotorStateError", "CCMotorRangeExceededError"}

\* the last call was one of these operations and ended with one of these
\* failures
FailedCall == Ended /\ call.proc \in SyncsAndMoves /\ outcome.kind \in Failures

\* C14: no step of a homing or move call, from the call to its end, changes
\* the handle, the cached limits or the axis object; when such a call has
\* ended with CCMotorTimeoutError, CCMotorStateError or
\* CCMotorRangeExceededError the handle is open and the axis is ready for a
\* call; and the call made next starts from the same configuration as any
\* other (empty command log, no answer pending, the frames of the operation
\* with its arguments), with nothing of the failure left in it.
C14_FailureKeepsAxis ==
    [][/\ call'.proc \in SyncsAndMoves =>
              /\ UNCHANGED axis
              /\ driver = "open" /\ constructed
       /\ FailedCall' =>
              /\ stack' = <<>>
              /\ driver' = "open" /\ constructed'
              /\ min_limit' \in NegativeLimits /\ max_limit' \in PositiveLimits
       /\ FailedCall /\ stack' # <<>> =>
              /\ UNCHANGED axis
              /\ stack'[1] = call'
              /\ \A i \in DOMAIN stack' : stack'[i].elapsed = 0
              /\ log' = <<>>
              /\ lastReply' = NoReply
              /\ ~readyChecked' /\ ~readyPolled'
              /\ outcome' = Running
    ]_vars

\* a move_absolute_sync that went through a recovery has ended with
\* CCMotorTimeoutError on an axis with limits 0 and 25 cached
C14_Witness ==
    /\ FailedCall
    /\ call.proc = "move_absolute_sync"
    /\ outcome.kind = "CCMotorTimeoutError"
    /\ Sent("MM_Set") > 0
    /\ driver = "open"
    /\ min_limit = 0
    /\ max_limit = 25

\* the call under way, or just ended, is init_position_sync
HomingCall == call.proc = "init_position_sync"

\* the polling windows of the call that ran until their time was up: every
\* find-home command opens one, and the last one is still open while the
\* call polls, or was left early when the call ended on anything but a
\* time-out
WindowsWaited ==
    IF Ended /\ outcome.kind = "CCMotorTimeoutError" THEN Len(log)
    ELSE IF Len(log) > 0 THEN Len(log) - 1
    ELSE 0

\* C15 as claimed: init_position_sync(timeout, n_retry = N) waits through
\* at most N timeout windows, and blocks for at most N x timeout.
C15_AtMostNWindows ==
    HomingCall =>
        /\ WindowsWaited <= call.n_retry
        /\ Ended /\ outcome.kind = "CCMotorTimeoutError" =>
              outcome.waited <= call.n_retry * call.timeout

\* C15, amended: init_position_sync(timeout, n_retry = N) waits through at
\* most N + 1 timeout windows (the first attempt and N retries), and through
\* exactly N + 1 when it ends with CCMotorTimeoutError; a window is left at
\* the first check that finds more than `timeout` elapsed, so it lasts
\* longer than `timeout` by less than one polling iteration.
C15_AtMostNPlusOneWindows ==
    HomingCall =>
        /\ WindowsWaited <= call.n_retry + 1
        /\ stack # <<>> /\ Top.pc = "loop" =>
              /\ WindowsWaited = call.n_retry - Top.n_retry
              /\ Top.elapsed <= Top.timeout + 2 * MaxStall
        /\ Ended /\ outcome.kind = "CCMotorTimeoutError" =>
              /\ WindowsWaited = call.n_retry + 1
              /\ outcome.waited > call.timeout
              /\ outcome.waited <= call.timeout + 2 * MaxStall

\* init_position_sync with no retry has waited through one window and
\* raised CCMotorTimeoutError
C15_Witness ==
    /\ HomingCall
    /\ call.n_retry = 0
    /\ Ended
    /\ outcome.kind = "CCMotorTimeoutError"
    /\ WindowsWaited = 1
    /\ outcome.waited > call.timeout

\* the step ends a call of move_absolute_sync normally
MoveAbsoluteSyncReturns ==
    /\ stack # <<>>
    /\ call'.proc = "move_absolute_sync"
    /\ outcome'.kind = "returned"

\* C16: the step on which move_absolute_sync returns normally is an
\* iteration of its polling loop (the sleep, then a state query) that is
\* answered with a ready state; the last command written before it is the
\* absolute move to the target, so the poll is later than the last move
\* command, retries included.  The step that writes an absolute move never
\* ends the call normally, whatever the readiness check before it saw: the
\* call is then in its polling loop with no time elapsed, or has failed.
C16_ReturnsOnPollAfterMove ==
    [][/\ MoveAbsoluteSyncReturns =>
              /\ At("move_absolute_sync", "loop")
              /\ ~TimedOut(Top.elapsed, Top.timeout)
              /\ log' = log
              /\ log # <<>>
              /\ log[Len(log)] = Command("PA_Set", UmToMm(call.arg))
              /\ lastReply'.cmd = "TS"
              /\ lastReply'.err = ""
              /\ lastReply'.state \in READY_STATES
              /\ readyPolled'
       /\ call.proc = "move_absolute_sync" /\ WritesMove =>
              /\ readyChecked
              /\ outcome'.kind # "returned"
              /\ stack' # <<>> =>
                    /\ stack'[Len(stack')].proc = "move_absolute_sync"
                    /\ stack'[Len(stack')].pc = "loop"
                    /\ stack'[Len(stack')].elapsed = 0
    ]_vars

\* a move_absolute_sync that timed out once, recovered, wrote the move a
\* second time and then polled a ready state has returned
C16_Witness ==
    /\ call.proc = "move_absolute_sync"
    /\ outcome = Returned
    /\ Sent("PA_Set") = 2
    /\ Sent("MM_Set") = 1
    /\ log[Len(log)].cmd = "PA_Set"
    /\ lastReply.state \in READY_STATES

\* C17: when a move fails with CCMotorStateError, the state the error
\* carries is the state its readiness check saw (the answer of the state
\* query just before), and it is not a ready state.
C17_StateErrorNamesOffendingState ==
    [][SawNotReady /\ outcome'.kind = "CCMotorStateError" =>
        /\ outcome'.state = lastReply.state
        /\ outcome'.state \notin READY_STATES
    ]_vars

\* the last call was get_state, or the property state or error
StateQueryCall == call.proc \in {"get_state", "state", "error"}

\* C18: get_state, and each of the properties state and error, is one TS
\* round trip and nothing else (no command written, the call over with that
\* answer); an answer with an error string makes it raise
\* CCMotorCommunicationError, and any other answer is returned: get_state
\* returns (state, error) of that answer, state its state, error its error.
C18_StateAndErrorOfOneResponse ==
    StateQueryCall =>
        /\ stack = <<>>
        /\ log = <<>>
        /\ lastReply.cmd = "TS"
        /\ lastReply.err # "" => outcome = CCMotorCommunicationError("get_state")
        /\ lastReply.err = "" =>
              /\ outcome.kind = "returned"
              /\ call.proc = "get_state" =>
                    outcome.value = <<lastReply.state, lastReply.error>>
              /\ call.proc = "state" => outcome.value = <<lastReply.state>>
              /\ call.proc = "error" => outcome.value = <<lastReply.error>>

\* get_state has returned the state and the error code of a moving
\* controller that reports an error
C18_Witness ==
    /\ call.proc = "get_state"
    /\ lastReply.state = "28"
    /\ lastReply.error = "0040"
    /\ outcome.kind = "returned"
    /\ outcome.value = <<"28", "0040">>

\* the thread of axis a has closed its axis and is outside any call: it
\* has no statement left
Finished(a) == threads[a].pc = "idle" /\ threads[a].driver = "closed"

\* C19: while the thread of one axis waits inside sleep(), in the polling
\* loop of its synchronous call, the thread of the other axis can run its
\* next statement, whatever that is (unless it has closed its own axis and
\* has nothing left to run); and a step of one thread changes nothing of the
\* other axis: not its handle, not its cached limits, not the place of its
\* thread.
C19_WaitSuspendsCallerOnly ==
    [][\A a \in Axes : \A b \in Axes \ {a} :
        /\ Suspended(a) => (ENABLED ThreadStep(b) <=> ~Finished(b))
        /\ threads'[a] # threads[a] => threads'[b] = threads[b]
    ]_vars

\* one thread waits in sleep() while the other, which began its own call
\* later, has polled and is at the head of its loop again
C19_Witness ==
    /\ threads[1].pc = "sleep"
    /\ threads[1].elapsed = 0
    /\ threads[2].pc = "loop"
    /\ threads[2].elapsed > 0
    /\ threads[2].max_limit # threads[1].max_limit

\* a position, um, inside the travel of the axis: not below the cached
\* negative limit and not above the run
InsideTravel(pos) == MmToUm(min_limit) <= pos /\ pos <= MAX_RUN

\* C20: a move whose target lies outside the travel range is rejected
\* before any move command is sent: an absolute move writes its command
\* only for a target inside the travel, and a relative move gets past its
\* range check only when the position read plus the distance is inside it.
C20_OutsideTravelRejected ==
    [][/\ call.proc \in AbsoluteMoves /\ WritesMove => InsideTravel(call.arg)
       /\ At("move_relative_async", "start") /\ stack' # <<>> =>
              InsideTravel(MmToUm(lastReply'.val) + Top.arg)
    ]_vars

\* C21: set_enable writes the mode command MM_Set with value 1 and
\* set_disable writes it with value 0; the call is that one round trip and
\* nothing else; it ends with CCMotorCommunicationError exactly when the
\* answer carries a non-zero result code or a non-empty error string, and
\* returns normally otherwise.
C21_EnableDisableOneCommand ==
    call.proc \in {"set_enable", "set_disable"} =>
        /\ stack = <<>>
        /\ log = <<Command("MM_Set", IF call.proc = "set_enable" THEN 1 ELSE 0)>>
        /\ lastReply.cmd = "MM_Set"
        /\ outcome \in {CCMotorCommunicationError("set_state"), Returned}
        /\ outcome = CCMotorCommunicationError("set_state") <=>
              (lastReply.res # 0 \/ lastReply.err # "")

\* set_disable was answered with result code 0 and an error string, and
\* has raised CCMotorCommunicationError
C21_Witness ==
    /\ call.proc = "set_disable"
    /\ log = <<Command("MM_Set", 0)>>
    /\ lastReply.res = 0
    /\ lastReply.err = "ERR"
    /\ outcome = CCMotorCommunicationError("set_state")

\* the category of a label of the state table: its leading words, before
\* " from ", " - " or the final "."
Category(label) ==
    CASE label \in {"NOT REFERENCED from RESET.", "NOT REFERENCED from HOMING.",
                    "NOT REFERENCED from CONFIGURATION.",
                    "NOT REFERENCED from DISABLE.", "NOT REFERENCED from READY.",
                    "NOT REFERENCED from MOVING.",
                    "NOT REFERENCED - NO PARAMETERS IN MEMORY."} -> "NOT REFERENCED"
      [] label = "CONFIGURATION." -> "CONFIGURATION"
      [] label = "HOMING." -> "HOMING"
      [] label = "MOVING." -> "MOVING"
      [] label \in {"READY from HOMING.", "READY from MOVING.",
                    "READY from DISABLE."} -> "READY"
      [] label \in {"READY T from READY.", "READY T from TRACKING.",
                    "READY T from DISABLE T."} -> "READY T"
      [] label \in {"DISABLE from READY.", "DISABLE from MOVING.",
                    "DISABLE from TRACKING.", "DISABLE from READY T."} -> "DISABLE"
      [] label \in {"TRACKING from READY T.", "TRACKING from TRACKING."} -> "TRACKING"

ReadyCategories == {"READY", "READY T"}

\* the readiness check before a move has just been answered
ReadinessChecked ==
    /\ stack # <<>>
    /\ Top.proc \in {"move_absolute_async", "move_relative_async"}
    /\ Top.pc \in {"send", "not_ready"}

\* C22: is_ready is true exactly for the state codes of READY_STATES, every
\* code of READY_STATES is a key of POSSIBLE_STATES labelled as a READY
\* variant, every READY variant of the table is in READY_STATES, and a
\* readiness check lets a move go on exactly when the state it was answered
\* with is a READY variant: no state of another category is treated as ready.
C22_ReadyIsTheReadyVariants ==
    /\ READY_STATES \subseteq DOMAIN POSSIBLE_STATES
    /\ \A code \in DOMAIN POSSIBLE_STATES :
          /\ is_ready(code) <=> code \in READY_STATES
          /\ is_ready(code) <=> Category(POSSIBLE_STATES[code]) \in ReadyCategories
    /\ ReadinessChecked =>
          /\ lastReply.cmd = "TS"
          /\ Top.pc = "send" <=>
                Category(POSSIBLE_STATES[lastReply.state]) \in ReadyCategories

\* a readiness check answered with a TRACKING state stops the move
C22_Witness ==
    /\ ReadinessChecked
    /\ Top.pc = "not_ready"
    /\ Category(POSSIBLE_STATES[lastReply.state]) = "TRACKING"
    /\ log = <<>>

\* a call of an analyzer operation has ended
VaEnded == va_pc = "idle" /\ va_call # "none"

\* ... by returning
VaReturned == VaEnded /\ va_outcome \in {"curve", "None", "True", "False"}

\* ... by raising
VaFailed == VaEnded /\ ~VaReturned

\* C23: a *_vi_error_robust call with n_retry = N that ends with an error
\* has made exactly N + 1 attempts, and one that returns has made at most
\* N + 1 attempts, the last of which succeeded.
C23_RobustRepeats ==
    (va_call \in Robust /\ VaEnded) =>
        /\ attempts <= va_arg + 1
        /\ VaFailed => attempts = va_arg + 1

\* the status 'done': average complete is flagged and measuring is not
\* (MEASUREMENT_DONE is the value 0: it has no flag of its own)
StatusDone(current) ==
    /\ BitAnd(current, AVERAGE_COMPLETE) # 0
    /\ BitAnd(current, MEASURING) = 0

\* C24: once wait_measurement_ready has read a status that is 'done' it
\* returns True, and it returns False only after sleep_function returned
\* False.
C24_WaitReturnsTrueWhenDone ==
    va_call = "wait_measurement_ready" =>
        /\ (va_reply = "answer" /\ StatusDone(va_status)) => va_outcome = "True"
        /\ va_outcome = "False" => va_reply = "False"

\* an AOM_DDS object exists
AomConstructed == aom_outcome \in {"constructed", "None", "ValueError"}

\* value is the number 0 or the number 1
ZeroOrOne(value) ==
    value[1] \notin {"str", "NoneType"} /\ value[2] \in {0, 1}

\* the last of the assigned values that is 0 or 1; 0 when there is none
RECURSIVE LastZeroOrOne(_)
LastZeroOrOne(values) ==
    IF values = <<>>
    THEN <<"int", 0>>
    ELSE IF ZeroOrOne(values[Len(values)])
    THEN values[Len(values)]
    ELSE LastZeroOrOne(SubSeq(values, 1, Len(values) - 1))

\* C25: device is 0 or 1 and equals the last assigned value that is 0 or 1
\* (0 when there is none, as after construction); an assignment raises
\* ValueError exactly when the value is neither, and device then remains
\* at its previous value.
C25_DeviceIsZeroOrOne ==
    AomConstructed =>
        /\ ZeroOrOne(device)
        /\ device = LastZeroOrOne(assigned)
        /\ assigned = <<>> <=> aom_outcome = "constructed"
        /\ aom_outcome = "ValueError" <=>
              (assigned # <<>> /\ ~ZeroOrOne(assigned[Len(assigned)]))

\* an accepted 1, then a rejected 2: the device remains 1
C25_Witness ==
    /\ assigned = <<<<"int", 1>>, <<"int", 2>>>>
    /\ device = <<"int", 1>>
    /\ aom_outcome = "ValueError"

\* C26: whenever a move command is written, its target is at most MAX_RUN:
\* the requested position of an absolute move, and for a relative move the
\* position of the stage at that moment plus the distance.
C26_SentTargetsWithinMaxRun ==
    [][(stack # <<>> /\ Len(log') > Len(log)) =>
          /\ Top.proc = "move_absolute_async" => Top.arg <= MAX_RUN
          /\ Top.proc = "move_relative_async" =>
                MmToUm(position) + Top.arg <= MAX_RUN]_vars

\* a frame of move_absolute_sync waits at pc for the call it has made
Waits(pc) ==
    \E i \in DOMAIN stack :
        stack[i].proc = "move_absolute_sync" /\ stack[i].pc = pc

\* the step is the re-enable of a recovery, and the command is rejected
ReEnableFails ==
    /\ stack # <<>>
    /\ Top.proc = "move_absolute_sync"
    /\ Top.pc = "loop"
    /\ Top.elapsed > Top.timeout
    /\ Top.n_retry > 0
    /\ lastReply'.res # 0 \/ lastReply'.err # ""

\* the step ends the last polling window of a recovery homing
RecoveryHomingTimesOut ==
    /\ Waits("retry")
    /\ Top.proc = "init_position_sync"
    /\ Top.pc = "loop"
    /\ Top.elapsed > Top.timeout
    /\ Top.n_retry = 0

\* the step writes the move again after a recovery, and it is rejected
ReissuedMoveRejected ==
    /\ Waits("ret")
    /\ Top.proc = "move_absolute_async"
    /\ Top.pc = "send"
    /\ lastReply'.res # 0 \/ lastReply'.err # ""

\* the last n commands written
LastCommands(n) == SubSeq(log, Len(log) - n + 1, Len(log))

\* C27: in move_absolute_sync a failed recovery step ends the call with the
\* error of that step: a rejected re-enable with CCMotorCommunicationError,
\* a recovery homing whose last window is over with the CCMotorTimeoutError
\* of init_position_sync, which carries the default timeout 30 and comes
\* after the 3 + 1 find-home commands of the default retries, and a rejected
\* re-issued move with the error of move_absolute_async. The call is over
\* on that step (no frame is left to write anything), whatever retries
\* were left.
C27_RecoveryFailureEndsCall ==
    [][/\ ReEnableFails =>
            /\ stack' = <<>>
            /\ outcome' = CCMotorCommunicationError("set_state")
            /\ log' = Append(log, Command("MM_Set", 1))
       /\ RecoveryHomingTimesOut =>
            /\ stack' = <<>>
            /\ outcome'.kind = "CCMotorTimeoutError"
            /\ outcome'.site = "init_position_sync"
            /\ outcome'.timeout = 30
            /\ log' = log
            /\ Len(log) >= 6
            /\ LastCommands(5) = <<Command("MM_Set", 1)>> \o Homing
       /\ ReissuedMoveRejected =>
            /\ stack' = <<>>
            /\ outcome' = ValueError("move_absolute_async")
            /\ log' = Append(log, Command("PA_Set", UmToMm(call.arg)))
            /\ Sent("PA_Set") <= call.n_retry]_vars

\* move_absolute_sync(1000, timeout = 20, n_retry = 1) ended with the
\* time-out of the recovery homing: one move, one enable, four find-home
\* commands, and the retry that was left has not been made
C27_Witness ==
    /\ call.proc = "move_absolute_sync"
    /\ call.timeout = MaxStall
    /\ call.n_retry = 1
    /\ stack = <<>>
    /\ outcome.kind = "CCMotorTimeoutError"
    /\ outcome.site = "init_position_sync"
    /\ outcome.timeout = DefaultTimeout
    /\ Sent("PA_Set") = 1
    /\ Sent("MM_Set") = 1
    /\ Sent("OR") = DefaultRetry + 1

\* C28: every call of init_position_sync, move_relative_sync and
\* move_absolute_sync that has begun ends (returns or raises), and what it
\* writes is bounded by its retry argument N: move_absolute_sync at most
\* N + 1 absolute moves, N enable commands and 4 * N find-home commands,
\* move_relative_sync at most one relative move, init_position_sync at most
\* N + 1 find-home commands.
C28_SyncCallsEndWithBoundedCommands ==
    /\ [](call.proc = "move_absolute_sync" =>
            /\ Sent("PA_Set") <= call.n_retry + 1
            /\ Sent("MM_Set") <= call.n_retry
            /\ Sent("OR") <= 4 * call.n_retry
            /\ Sent("PR_Set") = 0)
    /\ [](call.proc = "move_relative_sync" =>
            /\ Sent("PR_Set") <= 1
            /\ Len(log) = Sent("PR_Set"))
    /\ [](call.proc = "init_position_sync" =>
            /\ Sent("OR") <= call.n_retry + 1
            /\ Len(log) = Sent("OR"))
    /\ (stack # <<>>) ~> (stack = <<>>)

\* move_absolute_sync(n_retry = 1) has returned after all it may write: the
\* move, the enable, four find-home commands and the move again
C28_Witness ==
    /\ call.proc = "move_absolute_sync"
    /\ call.n_retry = 1
    /\ stack = <<>>
    /\ outcome = Returned
    /\ Sent("PA_Set") = 2
    /\ Sent("MM_Set") = 1
    /\ Sent("OR") = 4

\* C29: a read of measurement_done, in either driver, ends with True when
\* *OPC? was answered and with False on VisaIOError, and in both cases
\* visa_instr.timeout is what it was before the read; the same holds for
\* the reads made inside a measurement: the timeout differs from its value
\* at the start of the call only while the answer to *OPC? is awaited.
C29_MeasurementDoneKeepsTimeout ==
    /\ (va_call = "measurement_done" /\ VaEnded) =>
          /\ visa_instr_timeout = timeout_before
          /\ va_outcome \in {"True", "False"}
          /\ va_outcome = "True" <=> va_reply = "1"
          /\ va_outcome = "False" <=> va_reply = "VisaIOError"
    /\ (va_call # "none" /\ va_pc # "opc") => visa_instr_timeout = timeout_before
    /\ va_pc = "opc" =>
          /\ visa_instr_timeout = OpcTimeout(va_class)
          /\ previous_timeout = timeout_before

\* RSVectorAnalyser.measurement_done got no answer: False, and the timeout
\* is 2000 ms again
C29_Witness ==
    /\ va_class = "RSVectorAnalyser"
    /\ va_call = "measurement_done"
    /\ VaEnded
    /\ va_reply = "VisaIOError"
    /\ va_outcome = "False"
    /\ timeout_before = 2000
    /\ visa_instr_timeout = 2000

\* C30: when a call of VSA.take_sample_curve has ended, by returning a
\* curve or by raising, the SENSe:AVERage:REPeat setting of the analyzer is
\* what it was before the call.
C30_TakeSampleCurveKeepsAverageRepeat ==
    (va_class = "VSA" /\ va_call = "take_sample_curve" /\ VaEnded) =>
        average_repeat = repeat_before

====
